---------------------------- MODULE Spec2Model ----------------------------
(***************************************************************************)
(* A model of elelem's resilient generation pipeline: the retry engine     *)
(* (withRetries over the backOff driver), the cache-augmented generate     *)
(* protocol, the three usage ledgers, the session orchestrator and the     *)
(* cached action wrapper.                                                  *)
(*                                                                         *)
(* Texts (provider responses, cache entries) are sequences of one-         *)
(* character strings over the alphabet  { } " : a 1 and the blank, so      *)
(* that extractLastJSON, JSON.parse and the schema check are computed on   *)
(* the characters, as the code computes them.                              *)
(***************************************************************************)
EXTENDS Integers, Sequences, FiniteSets, TLC

(***************************************************************************)
(* Bounds of the model.                                                    *)
(***************************************************************************)
\* generate calls issued over one run (all sessions together)
MaxCalls == 2
\* the largest numOfAttempts a caller configures in backoffOptions
MaxAttempts == 2
\* action calls issued over one run
MaxActionCalls == 2
MaxExecutions == 2
\* the pieces an input text of extractLastJSON is put together from
MaxTokens == 4
\* the exporters a CompositeExporter wraps, and the export calls it gets
MaxExporters == 4
MaxExports == 2

(***************************************************************************)
(* Program constants.                                                      *)
(***************************************************************************)
\* backoffOptions || { numOfAttempts: 3 }
DefaultAttempts == 3
\* numOfAttempts of the backOff driver when the options leave it out
BackoffLibraryAttempts == 10

(***************************************************************************)
(* Texts.                                                                  *)
(***************************************************************************)
LB == "{"
RB == "}"
QT == "\""
CL == ":"
SP == " "

\* "string | null": null is the one value that is no sequence of characters
Null == <<"null">>

\* helpers.ts: the backward scan of extractLastJSON.  i, lastIndex and the
\* returned firstIndex are the code's 0-based indexes, -1 for "not set".
\* a scan that starts counting at the last closing brace
RECURSIVE ExtractScan_FromLastClose(_, _, _, _)
ExtractScan_FromLastClose(input, i, bracketsCount, lastIndex) ==
    IF i < 0 THEN <<-1, lastIndex>>
    ELSE IF input[i + 1] = RB
         THEN ExtractScan_FromLastClose(input, i - 1, bracketsCount + 1,
                                        IF lastIndex = -1 THEN i ELSE lastIndex)
    ELSE IF input[i + 1] = LB /\ lastIndex # -1
         THEN IF bracketsCount - 1 = 0
              THEN <<i, lastIndex>>
              ELSE ExtractScan_FromLastClose(input, i - 1, bracketsCount - 1,
                                             lastIndex)
    ELSE ExtractScan_FromLastClose(input, i - 1, bracketsCount, lastIndex)

RECURSIVE ExtractScan(_, _, _, _)
ExtractScan(input, i, bracketsCount, lastIndex) ==
    IF i < 0 THEN <<-1, lastIndex>>
    ELSE IF input[i + 1] = RB
         THEN ExtractScan(input, i - 1, bracketsCount + 1,
                          IF lastIndex = -1 THEN i ELSE lastIndex)
    ELSE IF input[i + 1] = LB
         THEN IF bracketsCount - 1 = 0
              THEN <<i, lastIndex>>
              ELSE ExtractScan(input, i - 1, bracketsCount - 1, lastIndex)
    ELSE ExtractScan(input, i - 1, bracketsCount, lastIndex)

extractLastJSON(input) ==
    LET r == ExtractScan(input, Len(input) - 1, 0, -1)
        firstIndex == r[1]
        lastIndex == r[2]
    IN  IF firstIndex # -1 /\ lastIndex # -1
        THEN SubSeq(input, firstIndex + 1, lastIndex + 1)
        ELSE Null

(***************************************************************************)
(* JSON.parse on the alphabet.  Over these characters a JSON text is       *)
(*   value  ::= ws (string | number | object) ws                           *)
(*   string ::= " (any character but ")* "                                 *)
(*   number ::= 1+                                                         *)
(*   object ::= { ws } | { ws string ws : value }                          *)
(* (no comma, escape, sign or other literal can be written).  Each         *)
(* operator takes a 1-based position and returns the position after what   *)
(* it read, or 0 for a syntax error.                                       *)
(***************************************************************************)
RECURSIVE SkipWs(_, _)
SkipWs(t, i) == IF i <= Len(t) /\ t[i] = SP THEN SkipWs(t, i + 1) ELSE i

RECURSIVE StringEnd(_, _)
\* i is the position after the opening quote
StringEnd(t, i) ==
    IF i > Len(t) THEN 0
    ELSE IF t[i] = QT THEN i + 1
    ELSE StringEnd(t, i + 1)

RECURSIVE NumberEnd(_, _)
NumberEnd(t, i) == IF i <= Len(t) /\ t[i] = "1" THEN NumberEnd(t, i + 1) ELSE i

RECURSIVE ValueEnd(_, _)
ValueEnd(t, i) ==
    LET j == SkipWs(t, i)
        raw == IF j > Len(t) THEN 0
               ELSE IF t[j] = QT THEN StringEnd(t, j + 1)
               ELSE IF t[j] = "1" THEN NumberEnd(t, j)
               ELSE IF t[j] = LB
                    THEN LET k == SkipWs(t, j + 1)
                         IN  IF k > Len(t) THEN 0
                             ELSE IF t[k] = RB THEN k + 1
                             ELSE IF t[k] = QT
                                  THEN LET e == StringEnd(t, k + 1)
                                           c == IF e = 0 THEN 0 ELSE SkipWs(t, e)
                                       IN  IF c = 0 \/ c > Len(t) THEN 0
                                           ELSE IF t[c] # CL THEN 0
                                           ELSE LET v == ValueEnd(t, c + 1)
                                                IN  IF v = 0 \/ v > Len(t) THEN 0
                                                    ELSE IF t[v] = RB THEN v + 1
                                                    ELSE 0
                             ELSE 0
               ELSE 0
    IN  IF raw = 0 THEN 0 ELSE SkipWs(t, raw)

\* JSON.parse(text) does not throw
JSONParses(text) == text # Null /\ ValueEnd(text, 1) = Len(text) + 1

\* the value JSON.parse returns, written without insignificant blanks:
\* two texts parse to equal values exactly when these are equal
RECURSIVE Canon(_, _, _)
Canon(t, i, inString) ==
    IF i > Len(t) THEN <<>>
    ELSE IF t[i] = QT THEN <<QT>> \o Canon(t, i + 1, ~inString)
    ELSE IF t[i] = SP /\ ~inString THEN Canon(t, i + 1, inString)
    ELSE <<t[i]>> \o Canon(t, i + 1, inString)

JSONParse(text) == Canon(text, 1, FALSE)

\* the schema of the calls, z.object({ a: z.string() }): safeParse(json).success
SchemaOk(json) ==
    /\ Len(json) >= 8
    /\ SubSeq(json, 1, 6) = <<LB, QT, "a", QT, CL, QT>>

\* parsed.data: the object with the keys of the schema
SchemaData(json) == json


(***************************************************************************)
(* Usage ledgers.  Token counts are integers.  cost_usd is a JavaScript    *)
(* number: a binary floating-point value, every sum rounded to the         *)
(* significand.  The model keeps cost in units of 5e-7 USD and rounds      *)
(* every sum to SignificandBits bits (the build has 53).                   *)
(***************************************************************************)
SignificandBits == 3

RECURSIVE Pow2(_)
Pow2(n) == IF n = 0 THEN 1 ELSE 2 * Pow2(n - 1)

\* the spacing of the representable values around x >= 0
RECURSIVE Ulp(_, _)
Ulp(x, q) == IF x < q * Pow2(SignificandBits) THEN q ELSE Ulp(x, 2 * q)

\* round to nearest, ties to the even significand
RoundFloat(x) ==
    LET q == Ulp(x, 1)
        lower == (x \div q) * q
        rem == x - lower
    IN  IF 2 * rem < q THEN lower
        ELSE IF 2 * rem > q THEN lower + q
        ELSE IF (lower \div q) % 2 = 0 THEN lower ELSE lower + q

\* a + b on JavaScript numbers
FloatAdd(a, b) == RoundFloat(a + b)

\* costs.ts: estimateCost, prices per token in units of 5e-7 USD
\* (0.0015 / 1000 USD = 3 units, 0.002 / 1000 USD = 4 units, ...)
estimateCost(usage, model) ==
    LET computeCost(pricePerInputToken, pricePerOutputToken) ==
            RoundFloat(pricePerInputToken * usage.prompt_tokens
                       + pricePerOutputToken * usage.completion_tokens)
    IN  CASE model = "gpt-4-32k" -> computeCost(120, 240)
          [] model = "gpt-4" -> computeCost(60, 120)
          [] model = "gpt-3.5-turbo-16k" -> computeCost(6, 8)
          [] model = "gpt-3.5-turbo" -> computeCost(3, 4)
          [] OTHER -> 0

ZeroUsage ==
    [completion_tokens |-> 0, prompt_tokens |-> 0, total_tokens |-> 0, cost_usd |-> 0]

\* elelem.ts 76-89: ledger.x += chat.usage.x; ledger.cost_usd += costUsd
AddUsage(ledger, usage, costUsd) ==
    [completion_tokens |-> ledger.completion_tokens + usage.completion_tokens,
     prompt_tokens |-> ledger.prompt_tokens + usage.prompt_tokens,
     total_tokens |-> ledger.total_tokens + usage.total_tokens,
     cost_usd |-> FloatAdd(ledger.cost_usd, costUsd)]

\* what a caller does to total the usages it was given (elelem.test.ts 242-245)
SumUsage(a, b) ==
    [completion_tokens |-> a.completion_tokens + b.completion_tokens,
     prompt_tokens |-> a.prompt_tokens + b.prompt_tokens,
     total_tokens |-> a.total_tokens + b.total_tokens,
     cost_usd |-> FloatAdd(a.cost_usd, b.cost_usd)]

(***************************************************************************)
(* Inputs.                                                                 *)
(***************************************************************************)
\* combinedOptions.temperature: 0, a non-zero number, or no such key
Temperatures == {"zero", "nonzero", "absent"}

\* the model of the session's default options
Model == "gpt-3.5-turbo"

\* chat.usage of a provider reply; NoChatUsage is chat.usage === undefined
NoChatUsage == [completion_tokens |-> 0, prompt_tokens |-> 0, total_tokens |-> 0]
UsageA == [completion_tokens |-> 1, prompt_tokens |-> 1, total_tokens |-> 2]
UsageB == [completion_tokens |-> 1, prompt_tokens |-> 2, total_tokens |-> 3]

\* {"a":"a"} : an object that satisfies the schema
TextGood == <<LB, QT, "a", QT, CL, QT, "a", QT, RB>>
\* a { "a":"{}"} : prose, then an object with braces inside its string
TextProse == <<"a", SP, LB, SP, QT, "a", QT, CL, QT, LB, RB, QT, RB>>
\* {"a":1} : JSON that does not satisfy the schema
TextWrongType == <<LB, QT, "a", QT, CL, "1", RB>>
\* {"a":} : braces balance, not JSON
TextMalformed == <<LB, QT, "a", QT, CL, RB>>
\* a : no object at all
TextNoJson == <<"a">>
\* {"a":"}"}{ : an object whose string holds a closing brace, then an
\* opening brace
TextBraceInString == <<LB, QT, "a", QT, CL, QT, RB, QT, RB, LB>>

\* what a provider can answer
Responses ==
    {TextGood, TextProse, TextWrongType, TextMalformed, TextNoJson, TextBraceInString}

\* what a cache written by others (an earlier schema version, another
\* program) can hold under a key
StaleTexts == {TextGood, TextWrongType, TextNoJson}

\* the cache key: objectHash of { systemPromptWithFormat, userPrompt,
\* combinedOptions }.  The prompts and the schema are the same in every
\* call, so the merged temperature tells the keys apart.
Keys == Temperatures

\* "ELELEM_NO_RETRY ..." messages are the tuples that start with the marker
NoRetryMarker == "ELELEM_NO_RETRY"
startsWithNoRetry(message) == Len(message) > 0 /\ message[1] = NoRetryMarker

NoError == <<>>

(***************************************************************************)
(* backoffOptions: not given, or given with numOfAttempts.                 *)
(***************************************************************************)
Undefined == [given |-> FALSE, numOfAttempts |-> 0]
BackoffOptionValues ==
    {Undefined} \cup {[given |-> TRUE, numOfAttempts |-> n] : n \in 1..MaxAttempts}

\* backoffOptions || { numOfAttempts: 3 }
OrDefault(options) ==
    IF options.given THEN options
    ELSE [given |-> TRUE, numOfAttempts |-> DefaultAttempts]

\* the attempt bound of backOff(request, options)
numOfAttempts(options) ==
    IF options.given THEN options.numOfAttempts ELSE BackoffLibraryAttempts

(***************************************************************************)
(* State.                                                                  *)
(***************************************************************************)
VARIABLES
    backoffOptions,  \* config.backoffOptions of elelem.init
    cacheConfig,     \* "none": no backend; "reliable": a backend whose calls
                     \* succeed; "flaky": a backend whose calls can throw
    openaiConfigured,\* config.openai and defaultModelOptions.openai are given
    cache,           \* the backend's entries: key -> text or Null
    sessionState,    \* "none", "running", "returned", "thrown"
    sessionUsage,    \* the session-level ledger of the running session
    sessionError,    \* message of the ElelemError session() threw
    reported,        \* contextFn's total of the usages its calls gave it
    chargedCalls,    \* how many of those usages were not all zero
    caught,          \* the error of the call contextFn awaited last
    lastOk,          \* key -> result of the last successful call, or Null
    issued,          \* generate calls issued so far
    calls,           \* slot -> the generate call running in it
    extraction,      \* a text given to extractLastJSON, and what it returned
    exportState      \* a CompositeExporter and the export call it is serving

\* the cached action wrapper
VARIABLES
    actionState      \* the action call contextFn awaits, the backend's
                     \* entries under action contexts, and what an observer
                     \* of the operation has seen (see IdleAction)

vars ==
    <<backoffOptions, cacheConfig, openaiConfigured, cache, sessionState,
      sessionUsage, sessionError, reported, chargedCalls, caught, lastOk,
      issued, calls, extraction, exportState, actionState>>

configVars == <<backoffOptions, cacheConfig, openaiConfigured>>

\* the callers that can be inside a generate call at the same time
Slots == {1, 2}

NoCaught == [class |-> "none", message |-> NoError]

(***************************************************************************)
(* Trace scopes: getTracer().startActiveSpan(name, fn) and span.end().     *)
(***************************************************************************)
\* the span names of one generate call (N left out)
ScopeNames ==
    {"chatId", "chatId-attempt", "cache-read", "cache-read-attempt",
     "openai-call", "parse-response", "cache-write", "cache-write-attempt"}

\* per name: the latest span is open; an earlier span was never ended; a
\* span was ended again after it had ended
NoScopes ==
    [n \in ScopeNames |-> [open |-> FALSE, unended |-> FALSE, again |-> FALSE]]

\* startActiveSpan(name, ...): a new span of that name is open
startActiveSpan(scopes, name) ==
    [scopes EXCEPT ![name].open = TRUE, ![name].unended = @ \/ scopes[name].open]

\* span.end() on the latest span of that name: it closes the span, or is
\* one more end() on a span that has ended
spanEnd(scopes, name) ==
    IF scopes[name].open
    THEN [scopes EXCEPT ![name].open = FALSE]
    ELSE [scopes EXCEPT ![name].again = TRUE]

\* `${spanName}-attempt-${attemptCounter}`
AttemptOf(name) ==
    IF name = "chatId" THEN "chatId-attempt"
    ELSE IF name = "cache-read" THEN "cache-read-attempt"
    ELSE "cache-write-attempt"

\* a nested withRetries (cache-read, cache-write) opens the span of its
\* next attempt, lines 146-148
NestedAttemptStart(r, name) ==
    [r EXCEPT !.innerNames = Append(@, r.innerCounter),
              !.scopes = startActiveSpan(@, AttemptOf(name))]

\* a nested withRetries starts: fresh counters (137-138), the parent span
\* (140), and the first invocation by backOff
NestedStart(r, name) ==
    NestedAttemptStart(
        [r EXCEPT !.inner = 0, !.innerCounter = 0, !.innerNames = <<>>,
                  !.scopes = startActiveSpan(@, name)], name)

\* the nested operation returned: it has ended its span itself (234, 304),
\* the finally of 160-163 counts the attempt and ends the span, the finally
\* of 172-174 ends the parent span
NestedReturn(r, name) ==
    [r EXCEPT !.innerCounter = @ + 1,
              !.scopes = spanEnd(spanEnd(spanEnd(@, AttemptOf(name)),
                                         AttemptOf(name)), name)]

\* the nested operation threw before it ended its span: the finally of
\* 160-163 counts the attempt and ends the span
NestedThrow(r, name) ==
    [r EXCEPT !.innerCounter = @ + 1,
              !.scopes = spanEnd(@, AttemptOf(name))]

\* the nested backOff gives up: the finally of 172-174 ends the parent span
NestedGiveUp(r, name) ==
    [NestedThrow(r, name) EXCEPT !.scopes = spanEnd(@, name)]

\* the nested backOff invokes its request function again
NestedRetry(r, name) ==
    NestedAttemptStart([NestedThrow(r, name) EXCEPT !.inner = @ + 1], name)

\* the attempt body reaches a step (a step that is retried is one step)
Step(r, step) ==
    IF r.steps # <<>> /\ r.steps[Len(r.steps)] = step THEN r
    ELSE [r EXCEPT !.steps = Append(@, step)]

\* a CompositeExporter over no exporters, which has not been called
NoExport ==
    [exporters |-> 0,            \* this._spanExporters.length
     exports |-> 0,              \* export calls so far
     pc |-> "idle",
     pending |-> {},             \* exporters that have not called back yet
     codes |-> <<>>,             \* the code each exporter has called back with
     completedExporters |-> 0,
     failed |-> FALSE,
     callbacks |-> 0,            \* resultCallback invocations of this call
     reported |-> "none"]        \* the code resultCallback was last given

NoExtraction ==
    [input |-> <<>>, output |-> Null, applied |-> FALSE,
     again |-> Null, reapplied |-> FALSE]

IdleCall ==
    [pc |-> "idle", temperature |-> "absent",
     attemptNumber |-> 0,      \* backOff: failed invocations so far
     attemptCounter |-> 0,     \* withRetries: attempt scopes closed so far
     nonRetryErr |-> NoError,  \* withRetries: the remembered error
     inner |-> 0,              \* attemptNumber of the nested cache-read/-write
     generateUsage |-> ZeroUsage,
     generateAttemptUsage |-> ZeroUsage,
     cacheHit |-> FALSE,
     extractedJson |-> Null,
     \* what an observer of the call has seen
     kinds |-> <<>>,           \* how each attempt body ended
     invocations |-> 0,        \* invocations of backOff's request function
     formatterCalls |-> 0,
     providerCalls |-> 0,
     cacheWrites |-> 0,
     attemptSum |-> ZeroUsage, \* total of the attempt-level ledgers
     errorClass |-> "none", errorMessage |-> NoError,
     result |-> Null,
     \* what a tracer has seen of the call
     scopes |-> NoScopes,      \* per span name: what went wrong with its spans
     names |-> <<>>,           \* the N of each chatId-attempt-N span started
     innerCounter |-> 0,       \* attemptCounter of the nested withRetries
     innerNames |-> <<>>,      \* the N of each nested -attempt-N span started
     steps |-> <<>>]           \* the steps of the latest attempt body, in order

KeyOf(r) == r.temperature

\* the attempt bound of the generate call and of its nested cache retries
GenerateAttempts == numOfAttempts(OrDefault(backoffOptions))

(***************************************************************************)
(* withRetries around generate's attempt body (elelem.ts 132-176).         *)
(***************************************************************************)
\* a driver that gives up one failure late
DriverCatch_OneMore(r, e) ==
    IF r.attemptNumber + 1 > GenerateAttempts
    THEN [r EXCEPT !.attemptNumber = @ + 1, !.pc = "thrown",
                   !.errorClass = "ElelemError", !.errorMessage = e,
                   !.scopes = spanEnd(@, "chatId")]
    ELSE [r EXCEPT !.attemptNumber = @ + 1, !.pc = "backoff"]

\* backOff: the request function threw e.  attemptNumber++, then give up
\* when the bound is reached, schedule the next invocation otherwise.
DriverCatch(r, e) ==
    IF r.attemptNumber + 1 >= GenerateAttempts
    THEN [r EXCEPT !.attemptNumber = @ + 1, !.pc = "thrown",
                   !.errorClass = "ElelemError", !.errorMessage = e,
                   !.scopes = spanEnd(@, "chatId")]
    ELSE [r EXCEPT !.attemptNumber = @ + 1, !.pc = "backoff"]

\* a withRetries that forgets the no-retry error
Remember_Forgets(r, message) == r

\* lines 155-157: remember an error whose message starts with the marker
Remember(r, message) ==
    IF startsWithNoRetry(message) THEN [r EXCEPT !.nonRetryErr = message] ELSE r

\* the attempt body threw: generate's catch (326-337) wraps the message and
\* generateUsage in an ElelemError and its finally (338-358) ends the
\* attempt span; withRetries (151-163) remembers a no-retry error, counts
\* the attempt, ends the attempt span and rethrows to the driver.
AttemptThrow(r, message, kind) ==
    LET r1 == Remember(r, message)
        r2 == [r1 EXCEPT !.attemptCounter = @ + 1,
                         !.kinds = Append(@, kind),
                         !.attemptSum = SumUsage(@, r.generateAttemptUsage),
                         !.scopes = spanEnd(spanEnd(@, "chatId-attempt"),
                                            "chatId-attempt")]
    IN  DriverCatch(r2, message)

\* the attempt body returned { result, usage: generateUsage }: its finally
\* (338-358) ends the attempt span, withRetries counts the attempt and ends
\* the attempt span (160-163) and the parent span (172-174)
AttemptReturn(r, kind) ==
    [r EXCEPT !.attemptCounter = @ + 1,
              !.kinds = Append(@, kind),
              !.attemptSum = SumUsage(@, r.generateAttemptUsage),
              !.result = SchemaData(JSONParse(r.extractedJson)),
              !.steps = Append(r.steps, "return"),
              !.scopes = spanEnd(spanEnd(spanEnd(@, "chatId-attempt"),
                                         "chatId-attempt"), "chatId"),
              !.pc = "returned"]

\* a check that takes a missing temperature for 0
TemperatureIsZero_Falsy(r) == r.temperature \in {"zero", "absent"}

\* "temperature" in combinedOptions && combinedOptions.temperature === 0
TemperatureIsZero(r) == r.temperature = "zero"

\* a parse failure that is never marked
SyntaxErrorMessage_Unmarked(r) == <<"SyntaxError">>

\* lines 266-279: the error JSON.parse threw, marked at temperature 0
SyntaxErrorMessage(r) ==
    IF TemperatureIsZero(r) THEN <<NoRetryMarker, "SyntaxError">> ELSE <<"SyntaxError">>

\* a missing object that is marked at temperature 0
NoJsonMessage_Marked(r) ==
    IF TemperatureIsZero(r)
    THEN <<NoRetryMarker, "No JSON available in response">>
    ELSE <<"No JSON available in response">>

\* lines 260-264: new Error("No JSON available in response")
NoJsonMessage(r) == <<"No JSON available in response">>

InvalidSchemaMessage(r) ==
    IF TemperatureIsZero(r)
    THEN <<NoRetryMarker, "Invalid schema returned from LLM">>
    ELSE <<"Invalid schema returned from LLM">>

\* startActiveSpan(`parse-response`, ...) and the extraction (252-260)
ParseStart(r) ==
    [Step(r, "extract") EXCEPT !.scopes = startActiveSpan(@, "parse-response")]

\* the finally of 321-323
ParseEnd(r) == [r EXCEPT !.scopes = spanEnd(@, "parse-response")]

\* a parse-response that goes on to the cache write after a hit too
ParseResponse_WritesOnHit(r0, response) ==
    LET r == ParseStart([r0 EXCEPT !.extractedJson = extractLastJSON(response)])
    IN  IF r.extractedJson = Null
        THEN AttemptThrow(ParseEnd(r), NoJsonMessage(r), "noJson")
        ELSE IF ~JSONParses(r.extractedJson)
        THEN AttemptThrow(ParseEnd(Step(r, "parse")), SyntaxErrorMessage(r), "parse")
        ELSE IF ~SchemaOk(JSONParse(r.extractedJson))
        THEN AttemptThrow(ParseEnd(Step(Step(r, "parse"), "validate")),
                          InvalidSchemaMessage(r), "schema")
        ELSE NestedStart([Step(Step(r, "parse"), "validate")
                             EXCEPT !.pc = "cacheWrite"], "cache-write")

\* parse-response (lines 252-325), up to the cache write
ParseResponse(r0, response) ==
    LET r == ParseStart([r0 EXCEPT !.extractedJson = extractLastJSON(response)])
    IN  IF r.extractedJson = Null
        THEN AttemptThrow(ParseEnd(r), NoJsonMessage(r), "noJson")
        ELSE IF ~JSONParses(r.extractedJson)
        THEN AttemptThrow(ParseEnd(Step(r, "parse")), SyntaxErrorMessage(r), "parse")
        ELSE IF ~SchemaOk(JSONParse(r.extractedJson))
        THEN AttemptThrow(ParseEnd(Step(Step(r, "parse"), "validate")),
                          InvalidSchemaMessage(r), "schema")
        ELSE IF ~r.cacheHit
        THEN NestedStart([Step(Step(r, "parse"), "validate")
                             EXCEPT !.pc = "cacheWrite"], "cache-write")
        ELSE AttemptReturn(ParseEnd(Step(Step(r, "parse"), "validate")), "hit")

(***************************************************************************)
(* The session and its context function (elelem.ts 371-558).               *)
(***************************************************************************)
AllIdle ==
    /\ \A c \in Slots : calls[c].pc = "idle"
    /\ actionState.pc = "idle"
    /\ actionState.sibling.pc = "idle"

\* session(): a fresh session ledger, then contextFunction(context)
SessionStart ==
    /\ sessionState \in {"none", "returned", "thrown"}
    /\ AllIdle
    /\ sessionState' = "running"
    /\ sessionUsage' = ZeroUsage
    /\ sessionError' = NoError
    /\ reported' = ZeroUsage
    /\ chargedCalls' = 0
    /\ caught' = NoCaught
    /\ UNCHANGED <<configVars, exportState, extraction, cache, lastOk, issued, calls, actionState>>

\* a withRetries whose remembered error is shared by all invocations
EnterCall_SharedFlag(temperature) ==
    LET remembered == {calls[d].nonRetryErr : d \in Slots} \cup {caught.message}
        marked == {m \in remembered : startsWithNoRetry(m)}
    IN  [IdleCall EXCEPT !.pc = "backoff", !.temperature = temperature,
                         !.nonRetryErr = IF marked = {} THEN NoError
                                         ELSE CHOOSE m \in marked : TRUE,
                         !.scopes = startActiveSpan(@, "chatId")]

\* context.openai (lines 382-434): the configuration check, then
\* generate() with a fresh call-level ledger and a fresh withRetries state
EnterCall(temperature) ==
    IF ~openaiConfigured
    THEN [IdleCall EXCEPT !.pc = "thrown", !.temperature = temperature,
                          !.errorClass = "Error",
                          !.errorMessage = <<"You must configure OpenAI!">>]
    ELSE [IdleCall EXCEPT !.pc = "backoff", !.temperature = temperature,
                          !.scopes = startActiveSpan(@, "chatId")]

\* contextFn calls c.openai(...) with one of the temperatures and awaits it
IssueCall(c, temperatures) ==
    /\ sessionState = "running"
    /\ AllIdle
    /\ \E temperature \in temperatures :
          calls' = [calls EXCEPT ![c] = EnterCall(temperature)]
    /\ issued' = issued + 1
    /\ UNCHANGED <<configVars, exportState, extraction, cache, sessionState, sessionUsage, sessionError,
                   reported, chargedCalls, caught, lastOk, actionState>>

\* a span name that never moves on from attempt-0
AttemptScopeName_Stuck(r) == 0

\* line 147: `${spanName}-attempt-${attemptCounter}`
AttemptScopeName(r) == r.attemptCounter

\* backOff invokes its request function (lines 142-167): rethrow the
\* remembered error, or open the next attempt scope and start the body
\* (formatter, fresh attempt-level ledger, nested cache-read retries)
BackoffInvoke(c) ==
    LET r == [calls[c] EXCEPT !.invocations = @ + 1]
    IN  /\ calls[c].pc = "backoff"
        /\ calls' = [calls EXCEPT ![c] =
              IF r.nonRetryErr # NoError
              THEN DriverCatch(r, r.nonRetryErr)
              ELSE NestedStart(
                       [r EXCEPT !.pc = "cacheRead",
                                 !.formatterCalls = @ + 1,
                                 !.generateAttemptUsage = ZeroUsage,
                                 !.cacheHit = FALSE,
                                 !.extractedJson = Null,
                                 !.steps = <<>>,
                                 !.names = Append(@, AttemptScopeName(r)),
                                 !.scopes = startActiveSpan(@, "chatId-attempt")],
                       "cache-read")]
        /\ UNCHANGED <<configVars, exportState, extraction, cache, sessionState, sessionUsage,
                       sessionError, reported, chargedCalls, caught, lastOk, issued,
                       actionState>>

\* caching.ts: what cache.read(key) returns
CacheReadValue(key) == IF cacheConfig = "none" THEN Null ELSE cache[key]

\* lines 240-241: cached !== null && schema.safeParse(JSON.parse(cached)).success
\* (evaluated only when JSON.parse(cached) does not throw)
IsCacheHit(cached) == cached # Null /\ SchemaOk(JSONParse(cached))

\* a generate that calls the provider also on a hit
CacheReadReturns_CallsAnyway(c) ==
    LET r == NestedReturn(Step(calls[c], "cacheRead"), "cache-read")
        cached == CacheReadValue(KeyOf(r))
    IN  /\ r.pc = "cacheRead"
        /\ calls' = [calls EXCEPT ![c] =
              IF cached # Null /\ ~JSONParses(cached)
              THEN AttemptThrow(r, <<"SyntaxError">>, "cachedParse")
              ELSE [r EXCEPT !.pc = "provider", !.cacheHit = IsCacheHit(cached),
                             !.scopes = startActiveSpan(@, "openai-call")]]
        /\ UNCHANGED <<configVars, exportState, extraction, cache, sessionState, sessionUsage,
                       sessionError, reported, chargedCalls, caught, lastOk, issued,
                       actionState>>

\* cache.read returned (lines 226-250): decide the hit; on a hit go on to
\* parse-response with the cached text
CacheReadReturns(c) ==
    LET r == NestedReturn(Step(calls[c], "cacheRead"), "cache-read")
        cached == CacheReadValue(KeyOf(r))
    IN  /\ r.pc = "cacheRead"
        /\ calls' = [calls EXCEPT ![c] =
              IF cached # Null /\ ~JSONParses(cached)
              THEN \* JSON.parse(cached) throws inside the attempt's try
                   AttemptThrow(r, <<"SyntaxError">>, "cachedParse")
              ELSE IF IsCacheHit(cached)
              THEN ParseResponse([r EXCEPT !.cacheHit = TRUE], cached)
              ELSE \* callOpenAIApi starts its span (line 45)
                   [r EXCEPT !.pc = "provider",
                             !.scopes = startActiveSpan(@, "openai-call")]]
        /\ UNCHANGED <<configVars, exportState, extraction, cache, sessionState, sessionUsage,
                       sessionError, reported, chargedCalls, caught, lastOk, issued,
                       actionState>>

\* cache.read threw: the nested withRetries("cache-read") retries it, and
\* rethrows into the attempt body once its bound is reached
CacheReadThrows(c) ==
    LET r == Step(calls[c], "cacheRead")
    IN  /\ r.pc = "cacheRead"
        /\ cacheConfig = "flaky"
        /\ calls' = [calls EXCEPT ![c] =
              IF r.inner + 1 >= GenerateAttempts
              THEN AttemptThrow(NestedGiveUp(r, "cache-read"),
                                <<"cache read failed">>, "cacheRead")
              ELSE NestedRetry(r, "cache-read")]
        /\ UNCHANGED <<configVars, exportState, extraction, cache, sessionState, sessionUsage,
                       sessionError, reported, chargedCalls, caught, lastOk, issued,
                       actionState>>

\* callOpenAIApi line 71: if (chat.usage !== undefined)
ChargesUsage(usage) == usage # NoChatUsage

\* one ledger takes the reply's usage
Charge(ledger, usage) ==
    IF ChargesUsage(usage)
    THEN AddUsage(ledger, usage, estimateCost(usage, Model))
    ELSE ledger

\* lines 76-79: localAttemptUsage
ChargeAttempt(ledger, usage) == Charge(ledger, usage)

\* a call ledger that takes every reply twice
ChargeCall_Twice(ledger, usage) == Charge(Charge(ledger, usage), usage)

\* lines 81-84: localUsage
ChargeCall(ledger, usage) == Charge(ledger, usage)

\* an update of the session ledger that starts from a stale, empty copy
ChargeSession_FromStale(ledger, usage) == Charge(ZeroUsage, usage)

\* a session ledger that is not given the total
ChargeSession_DropsTotal(ledger, usage) ==
    [Charge(ledger, usage) EXCEPT !.total_tokens = ledger.total_tokens]

\* lines 86-89: sessionUsage
ChargeSession(ledger, usage) == Charge(ledger, usage)

\* the provider answered with a text (lines 49-95): the three ledgers are
\* charged, then parse-response runs on the text
ProviderReturns(c, responses, usages) ==
    LET r == calls[c]
    IN  /\ r.pc = "provider"
        /\ \E response \in responses, usage \in usages :
              LET r1 == [Step(r, "provider") EXCEPT
                           !.scopes = spanEnd(@, "openai-call"),
                           !.providerCalls = @ + 1,
                           !.generateAttemptUsage = ChargeAttempt(@, usage),
                           !.generateUsage = ChargeCall(@, usage)]
              IN  /\ calls' = [calls EXCEPT ![c] = ParseResponse(r1, response)]
                  /\ sessionUsage' = ChargeSession(sessionUsage, usage)
        /\ UNCHANGED <<configVars, exportState, extraction, cache, sessionState, sessionError, reported,
                       chargedCalls, caught, lastOk, issued, actionState>>

\* a provider failure that is marked at temperature 0
ProviderErrorMessage_Marked(r) ==
    IF r.temperature = "zero"
    THEN <<NoRetryMarker, "No chat response from api!">>
    ELSE <<"No chat response from api!">>

\* lines 96-99: new Error("No chat response from api!")
ProviderErrorMessage(r) == <<"No chat response from api!">>

\* the provider call threw: callOpenAIApi ended its span and threw (lines
\* 66-69, 96-99), or openai.chat.completions.create rejected (line 49) and
\* the span was not ended; either way an Error without the marker
ProviderThrows(c) ==
    LET r == [Step(calls[c], "provider") EXCEPT !.providerCalls = @ + 1]
    IN  /\ r.pc = "provider"
        /\ \E rejected \in BOOLEAN :
              calls' = [calls EXCEPT ![c] =
                 AttemptThrow(
                    IF rejected THEN r
                    ELSE [r EXCEPT !.scopes = spanEnd(@, "openai-call")],
                    ProviderErrorMessage(r), "provider")]
        /\ UNCHANGED <<configVars, exportState, extraction, cache, sessionState, sessionUsage,
                       sessionError, reported, chargedCalls, caught, lastOk, issued,
                       actionState>>

\* a write that lands although no backend is configured
CacheAfterWrite_Stores(key, value) == [cache EXCEPT ![key] = value]

\* caching.ts: the entries after cache.write(key, value)
CacheAfterWrite(key, value) ==
    IF cacheConfig = "none" THEN cache ELSE [cache EXCEPT ![key] = value]

\* cache.write returned (lines 299-315): the attempt returns its result
CacheWriteReturns(c) ==
    LET r == calls[c]
    IN  /\ r.pc = "cacheWrite"
        /\ cache' = CacheAfterWrite(KeyOf(r), r.extractedJson)
        /\ calls' = [calls EXCEPT ![c] =
              AttemptReturn(
                 ParseEnd(NestedReturn([Step(r, "cacheWrite")
                                           EXCEPT !.cacheWrites = @ + 1],
                                       "cache-write")), "ok")]
        /\ UNCHANGED <<configVars, exportState, extraction, sessionState, sessionUsage, sessionError,
                       reported, chargedCalls, caught, lastOk, issued, actionState>>

\* a generate that returns its result when the cache write has given up
CacheWriteThrows_Swallowed(c) ==
    LET r == Step(calls[c], "cacheWrite")
    IN  /\ r.pc = "cacheWrite"
        /\ cacheConfig = "flaky"
        /\ calls' = [calls EXCEPT ![c] =
              IF r.inner + 1 >= GenerateAttempts
              THEN AttemptReturn(ParseEnd(NestedGiveUp(r, "cache-write")), "ok")
              ELSE NestedRetry(r, "cache-write")]
        /\ UNCHANGED <<configVars, exportState, extraction, cache, sessionState, sessionUsage,
                       sessionError, reported, chargedCalls, caught, lastOk, issued,
                       actionState>>

\* cache.write threw: retried by the nested withRetries("cache-write")
CacheWriteThrows(c) ==
    LET r == Step(calls[c], "cacheWrite")
    IN  /\ r.pc = "cacheWrite"
        /\ cacheConfig = "flaky"
        /\ calls' = [calls EXCEPT ![c] =
              IF r.inner + 1 >= GenerateAttempts
              THEN AttemptThrow(ParseEnd(NestedGiveUp(r, "cache-write")),
                                <<"cache write failed">>, "cacheWrite")
              ELSE NestedRetry(r, "cache-write")]
        /\ UNCHANGED <<configVars, exportState, extraction, cache, sessionState, sessionUsage,
                       sessionError, reported, chargedCalls, caught, lastOk, issued,
                       actionState>>

\* an ElelemError made from the attempt-level ledger
RaisedUsage_AttemptLevel(r) == r.generateAttemptUsage

\* lines 333-337: new ElelemError(message, generateUsage), the usage the
\* error of a failing attempt carries when it is raised
RaisedUsage(r) == r.generateUsage

\* an ElelemError that carries the attempt-level ledger
UsageGiven_AttemptLevel(r) ==
    IF r.pc = "returned" THEN r.generateUsage
    ELSE IF r.errorClass = "ElelemError" THEN r.generateAttemptUsage
    ELSE ZeroUsage

\* the usage a finished call hands to its caller: usage of the result, or
\* usage of the ElelemError (both are the call's generateUsage object); a
\* plain Error has none
UsageGiven(r) ==
    IF r.pc = "returned" THEN r.generateUsage
    ELSE IF r.errorClass = "ElelemError" THEN RaisedUsage(r)
    ELSE ZeroUsage

\* contextFn's await of call c resumes: it totals the usage it was given
\* (elelem.test.ts 177-178, 236-245) and the slot is free again
ContextResume(c) ==
    LET r == calls[c]
    IN  /\ r.pc \in {"returned", "thrown"}
        /\ reported' = SumUsage(reported, UsageGiven(r))
        /\ chargedCalls' = IF UsageGiven(r) = ZeroUsage THEN chargedCalls
                           ELSE chargedCalls + 1
        /\ caught' = IF r.pc = "thrown"
                     THEN [class |-> r.errorClass, message |-> r.errorMessage]
                     ELSE NoCaught
        /\ lastOk' = IF r.pc = "returned"
                     THEN [lastOk EXCEPT ![KeyOf(r)] = r.result]
                     ELSE lastOk
        /\ calls' = [calls EXCEPT ![c] = IdleCall]
        /\ UNCHANGED <<configVars, exportState, extraction, cache, sessionState, sessionUsage,
                       sessionError, issued, actionState>>

\* contextFunction returned (lines 543-548): { result, usage: sessionUsage }
SessionReturn ==
    /\ sessionState = "running"
    /\ AllIdle
    /\ sessionState' = "returned"
    /\ UNCHANGED <<configVars, exportState, extraction, cache, sessionUsage, sessionError, reported,
                   chargedCalls, caught, lastOk, issued, calls, actionState>>

\* contextFunction threw (lines 549-552): the error of the call it awaited
\* last, or an error of its own; session() throws
\* new ElelemError(e.message, sessionUsage)
SessionThrow ==
    /\ sessionState = "running"
    /\ AllIdle
    /\ \E message \in {caught.message, <<"contextFunction failed">>} :
          /\ message # NoError
          /\ sessionError' = message
    /\ sessionState' = "thrown"
    /\ UNCHANGED <<configVars, exportState, extraction, cache, sessionUsage, reported, chargedCalls, caught,
                   lastOk, issued, calls, actionState>>

(***************************************************************************)
(* A contextFn that starts sibling calls and awaits them together.         *)
(***************************************************************************)
\* contextFn calls c.openai(...) without awaiting the calls it has started
IssueSibling(c, temperatures) ==
    /\ sessionState = "running"
    /\ calls[c].pc = "idle"
    /\ actionState.pc = "idle"
    /\ \E temperature \in temperatures :
          calls' = [calls EXCEPT ![c] = EnterCall(temperature)]
    /\ issued' = issued + 1
    /\ UNCHANGED <<configVars, exportState, extraction, cache, sessionState, sessionUsage, sessionError,
                   reported, chargedCalls, caught, lastOk, actionState>>

\* the promise contextFn awaits (Promise.all) rejects with the error of the
\* first sibling that failed while another is still in flight; session()
\* throws new ElelemError(e.message, sessionUsage) (lines 549-552)
SessionThrowInFlight ==
    /\ sessionState = "running"
    /\ caught # NoCaught
    /\ \E c \in Slots : calls[c].pc \notin {"idle", "returned", "thrown"}
    /\ sessionError' = caught.message
    /\ sessionState' = "thrown"
    /\ UNCHANGED <<configVars, exportState, extraction, cache, sessionUsage, reported, chargedCalls, caught,
                   lastOk, issued, calls, actionState>>

\* the usage field of the ElelemError session() threw: the constructor
\* (types.ts 112-115) stores the reference it is given, the session ledger
SessionErrorUsage == sessionUsage

(***************************************************************************)
(* context.action (elelem.ts 485-540): withRetries around a read-through   *)
(* cache of an operation.                                                  *)
(***************************************************************************)
ActionContexts == {"ctx1", "ctx2"}

\* what the operation can return: the empty string and another string
EmptyText == <<>>
OperationResults == {EmptyText, <<"r">>}

\* cacheSerializer: JSON.stringify, or x => x
Serializers == {"stringify", "identity"}
\* cacheDeserializer: JSON.parse, or x => x
Deserializers == {"parse", "identity"}

cacheSerializer(serializer, result) ==
    IF serializer = "stringify" THEN <<QT>> \o result \o <<QT>> ELSE result

DeserializerThrows(deserializer, text) ==
    deserializer = "parse" /\ ~(JSONParses(text) /\ text[1] = QT)

cacheDeserializer(deserializer, text) ==
    IF deserializer = "parse" THEN SubSeq(text, 2, Len(text) - 1) ELSE text

\* the state of one action call; a second call that contextFn has started
\* without awaiting the first is kept in the field sibling of actionState
IdleSibling ==
    [pc |-> "idle", actionContext |-> "ctx1",
     backoffOptions |-> Undefined,
     attemptNumber |-> 0, nonRetryErr |-> NoError, inner |-> 0,
     result |-> Null, value |-> Null, errorMessage |-> NoError,
     ran |-> 0, afterWrite |-> FALSE]

IdleAction ==
    [pc |-> "idle", actionContext |-> "ctx1",
     backoffOptions |-> Undefined,  \* the backoffOptions parameter
     cacheSerializer |-> "stringify", cacheDeserializer |-> "parse",
     attemptNumber |-> 0, nonRetryErr |-> NoError, inner |-> 0,
     result |-> Null,               \* const result = await operation(...)
     value |-> Null,                \* what the call returned
     errorMessage |-> NoError,
     \* executions of the operation in this call, up to MaxExecutions
     ran |-> 0,
     \* the call started when a cache write for its context had completed
     afterWrite |-> FALSE,
     sibling |-> IdleSibling,
     \* the backend's entries under the action contexts
     store |-> [x \in ActionContexts |-> Null],
     \* what an observer has seen
     issued |-> 0,
     \* executions of the operation, counted up to MaxExecutions
     executions |-> [x \in ActionContexts |-> 0],
     \* what the first call that returned gave
     firstResult |-> [x \in ActionContexts |-> Null],
     \* the operation ran after a call had returned
     ranAfterReturn |-> [x \in ActionContexts |-> FALSE],
     \* an attempt failed in the cache write
     writeFailed |-> [x \in ActionContexts |-> FALSE],
     \* the operation ran after an attempt failed in the cache write
     ranAgain |-> [x \in ActionContexts |-> FALSE]]

\* the bound of the action's own withRetries (line 538): the parameter as
\* it is, so the library's default when it is undefined
ActionAttempts(a) == numOfAttempts(a.backoffOptions)

\* the bound of the nested cache-read and cache-write (lines 511, 532)
ActionCacheAttempts(a) == numOfAttempts(OrDefault(a.backoffOptions))

\* the attempt body threw message: withRetries remembers a no-retry error,
\* backOff counts the failure and gives up at the bound
ActionAttemptThrow(a, message) ==
    LET a1 == IF startsWithNoRetry(message)
              THEN [a EXCEPT !.nonRetryErr = message] ELSE a
    IN  IF a1.attemptNumber + 1 >= ActionAttempts(a1)
        THEN [a1 EXCEPT !.attemptNumber = @ + 1, !.pc = "thrown",
                        !.errorMessage = message]
        ELSE [a1 EXCEPT !.attemptNumber = @ + 1, !.pc = "backoff"]

ActionUnchanged ==
    UNCHANGED <<configVars, exportState, extraction, cache, sessionState, sessionUsage, sessionError,
                reported, chargedCalls, caught, lastOk, issued, calls>>

\* contextFn calls c.action(id, actionContext, ...) and awaits it
ActionIssued(a, x, o) ==
    [a EXCEPT !.pc = "backoff", !.actionContext = x,
              !.backoffOptions = o, !.attemptNumber = 0,
              !.nonRetryErr = NoError, !.inner = 0,
              !.result = Null, !.value = Null,
              !.errorMessage = NoError, !.issued = @ + 1,
              !.ran = 0,
              !.afterWrite = cacheConfig # "none" /\ a.store[x] # Null]

ActionIssue(actionContexts, options) ==
    /\ sessionState = "running"
    /\ AllIdle
    /\ actionState.issued < MaxActionCalls
    /\ \E x \in actionContexts, o \in options :
          actionState' = ActionIssued(actionState, x, o)
    /\ ActionUnchanged

\* a withRetries that runs the attempt body whatever it remembers
ActionInvoked_Reinvokes(a) == [a EXCEPT !.pc = "cacheRead", !.inner = 0]

\* backOff invokes the request function: withRetries (143-145) rethrows a
\* remembered error, otherwise the attempt body starts with the cache read
ActionInvoked(a) ==
    IF a.nonRetryErr # NoError
    THEN ActionAttemptThrow(a, a.nonRetryErr)
    ELSE [a EXCEPT !.pc = "cacheRead", !.inner = 0]

ActionBackoffInvoke ==
    /\ actionState.pc = "backoff"
    /\ actionState' = ActionInvoked(actionState)
    /\ ActionUnchanged

\* what cache.read(actionContext) gives: null without a backend
ActionCacheValue(a) ==
    IF cacheConfig = "none" THEN Null ELSE a.store[a.actionContext]

\* if (cacheValue): null and the empty string are falsy
Truthy(cacheValue) == cacheValue # Null /\ cacheValue # EmptyText

\* lines 500-516: cache.read returned
ActionCacheRead(a) ==
    LET cacheValue == ActionCacheValue(a)
    IN  IF ~Truthy(cacheValue) THEN [a EXCEPT !.pc = "operation"]
        ELSE IF DeserializerThrows(a.cacheDeserializer, cacheValue)
        THEN ActionAttemptThrow(a, <<"SyntaxError">>)
        ELSE [a EXCEPT !.pc = "returned",
                       !.value = cacheDeserializer(a.cacheDeserializer,
                                                   cacheValue)]

ActionCacheReadReturns ==
    /\ actionState.pc = "cacheRead"
    /\ actionState' = ActionCacheRead(actionState)
    /\ ActionUnchanged

\* cache.read threw: the nested withRetries retries, then gives up
ActionCacheReadFailed(a) ==
    IF a.inner + 1 >= ActionCacheAttempts(a)
    THEN ActionAttemptThrow(a, <<"cache read failed">>)
    ELSE [a EXCEPT !.inner = @ + 1]

ActionCacheReadThrows ==
    /\ actionState.pc = "cacheRead"
    /\ cacheConfig = "flaky"
    /\ actionState' = ActionCacheReadFailed(actionState)
    /\ ActionUnchanged

\* the operation has been invoked once more
Executed(a) ==
    [a EXCEPT !.ran = IF @ < MaxExecutions THEN @ + 1 ELSE @,
              !.executions[a.actionContext] =
                  IF @ < MaxExecutions THEN @ + 1 ELSE @,
              !.ranAfterReturn[a.actionContext] =
                  @ \/ a.firstResult[a.actionContext] # Null,
              !.ranAgain[a.actionContext] = @ \/ a.writeFailed[a.actionContext]]

\* lines 517-521: operation(actionContext, span, parentSpan) returned
OperationReturned(a, result) ==
    [Executed(a) EXCEPT !.result = result, !.pc = "cacheWrite", !.inner = 0]

OperationReturns(results) ==
    /\ actionState.pc = "operation"
    /\ \E result \in results :
          actionState' = OperationReturned(actionState, result)
    /\ ActionUnchanged

\* the operation threw
OperationThrows ==
    /\ actionState.pc = "operation"
    /\ \E message \in {<<"operation failed">>,
                       <<NoRetryMarker, "operation failed">>} :
          actionState' = ActionAttemptThrow(Executed(actionState), message)
    /\ ActionUnchanged

\* lines 523-535: cache.write(actionContext, cacheSerializer(result))
\* returned; the attempt body returns result
ActionCacheWritten(a) ==
    [a EXCEPT !.pc = "returned", !.value = a.result,
              !.store[a.actionContext] =
                  IF cacheConfig = "none" THEN @
                  ELSE cacheSerializer(a.cacheSerializer, a.result)]

ActionCacheWriteReturns ==
    /\ actionState.pc = "cacheWrite"
    /\ actionState' = ActionCacheWritten(actionState)
    /\ ActionUnchanged

\* cache.write threw: the nested withRetries retries, then gives up and the
\* attempt fails with the operation's result in hand
ActionCacheWriteFailed(a) ==
    IF a.inner + 1 >= ActionCacheAttempts(a)
    THEN [ActionAttemptThrow(a, <<"cache write failed">>) EXCEPT
             !.writeFailed[a.actionContext] = TRUE]
    ELSE [a EXCEPT !.inner = @ + 1]

ActionCacheWriteThrows ==
    /\ actionState.pc = "cacheWrite"
    /\ cacheConfig = "flaky"
    /\ actionState' = ActionCacheWriteFailed(actionState)
    /\ ActionUnchanged

\* the awaited action call settles and contextFn goes on
ActionSettled(a) ==
    [a EXCEPT !.pc = "idle",
              !.firstResult[a.actionContext] =
                  IF a.pc = "returned" /\ @ = Null THEN a.value ELSE @]

ActionResume ==
    LET a == actionState
    IN  /\ a.pc \in {"returned", "thrown"}
        /\ caught' = IF a.pc = "thrown"
                     THEN [class |-> "Error", message |-> a.errorMessage]
                     ELSE NoCaught
        /\ actionState' = ActionSettled(a)
        /\ UNCHANGED <<configVars, exportState, extraction, cache, sessionState, sessionUsage,
                       sessionError, reported, chargedCalls, lastOk, issued,
                       calls>>

(***************************************************************************)
(* A second action call, started while the first is in flight.  Swap puts  *)
(* the sibling in the place of the call the steps above work on, so both   *)
(* calls run the same code.                                                *)
(***************************************************************************)
Swap(a) ==
    LET k == a.sibling
    IN  [a EXCEPT !.pc = k.pc, !.actionContext = k.actionContext,
                  !.backoffOptions = k.backoffOptions,
                  !.attemptNumber = k.attemptNumber,
                  !.nonRetryErr = k.nonRetryErr, !.inner = k.inner,
                  !.result = k.result, !.value = k.value,
                  !.errorMessage = k.errorMessage,
                  !.ran = k.ran, !.afterWrite = k.afterWrite,
                  !.sibling = [pc |-> a.pc, actionContext |-> a.actionContext,
                               backoffOptions |-> a.backoffOptions,
                               attemptNumber |-> a.attemptNumber,
                               nonRetryErr |-> a.nonRetryErr, inner |-> a.inner,
                               result |-> a.result, value |-> a.value,
                               errorMessage |-> a.errorMessage,
                               ran |-> a.ran, afterWrite |-> a.afterWrite]]

\* contextFn calls c.action(...) while the call it started before is in
\* flight
SiblingIssue(actionContexts, options) ==
    /\ sessionState = "running"
    /\ \A c \in Slots : calls[c].pc = "idle"
    /\ actionState.pc \notin {"idle", "returned", "thrown"}
    /\ actionState.sibling.pc = "idle"
    /\ actionState.issued < MaxActionCalls
    /\ \E x \in actionContexts, o \in options :
          actionState' = Swap(ActionIssued(Swap(actionState), x, o))
    /\ ActionUnchanged

SiblingBackoffInvoke ==
    /\ actionState.sibling.pc = "backoff"
    /\ actionState' = Swap(ActionInvoked(Swap(actionState)))
    /\ ActionUnchanged

SiblingCacheReadReturns ==
    /\ actionState.sibling.pc = "cacheRead"
    /\ actionState' = Swap(ActionCacheRead(Swap(actionState)))
    /\ ActionUnchanged

SiblingCacheReadThrows ==
    /\ actionState.sibling.pc = "cacheRead"
    /\ cacheConfig = "flaky"
    /\ actionState' = Swap(ActionCacheReadFailed(Swap(actionState)))
    /\ ActionUnchanged

SiblingOperationReturns(results) ==
    /\ actionState.sibling.pc = "operation"
    /\ \E result \in results :
          actionState' = Swap(OperationReturned(Swap(actionState), result))
    /\ ActionUnchanged

SiblingOperationThrows ==
    /\ actionState.sibling.pc = "operation"
    /\ actionState' =
          Swap(ActionAttemptThrow(Executed(Swap(actionState)),
                                  <<"operation failed">>))
    /\ ActionUnchanged

SiblingCacheWriteReturns ==
    /\ actionState.sibling.pc = "cacheWrite"
    /\ actionState' = Swap(ActionCacheWritten(Swap(actionState)))
    /\ ActionUnchanged

SiblingCacheWriteThrows ==
    /\ actionState.sibling.pc = "cacheWrite"
    /\ cacheConfig = "flaky"
    /\ actionState' = Swap(ActionCacheWriteFailed(Swap(actionState)))
    /\ ActionUnchanged

SiblingResume ==
    LET k == actionState.sibling
    IN  /\ k.pc \in {"returned", "thrown"}
        /\ caught' = IF k.pc = "thrown"
                     THEN [class |-> "Error", message |-> k.errorMessage]
                     ELSE NoCaught
        /\ actionState' = Swap(ActionSettled(Swap(actionState)))
        /\ UNCHANGED <<configVars, exportState, extraction, cache, sessionState, sessionUsage,
                       sessionError, reported, chargedCalls, lastOk, issued,
                       calls>>

(***************************************************************************)
(* Spec: one session that issues one generate call, under every            *)
(* configuration, cache content, provider answer and cache failure.        *)
(***************************************************************************)
EmptyCache == [k \in Keys |-> Null]

\* the entries a backend holds when the program starts: none, or one left
\* by an earlier writer
InitialCaches ==
    {EmptyCache} \cup
    {[EmptyCache EXCEPT ![k] = t] : k \in Keys, t \in StaleTexts}

Idle ==
    /\ sessionState = "none"
    /\ sessionUsage = ZeroUsage
    /\ sessionError = NoError
    /\ reported = ZeroUsage
    /\ chargedCalls = 0
    /\ caught = NoCaught
    /\ lastOk = [k \in Keys |-> Null]
    /\ issued = 0
    /\ calls = [c \in Slots |-> IdleCall]

Init ==
    /\ backoffOptions \in BackoffOptionValues
    /\ cacheConfig \in {"none", "reliable", "flaky"}
    /\ openaiConfigured \in BOOLEAN
    /\ cache \in IF cacheConfig = "none" THEN {EmptyCache} ELSE InitialCaches
    /\ actionState = IdleAction
    /\ extraction = NoExtraction
    /\ exportState = NoExport
    /\ Idle

OneSession == issued = 0 /\ sessionState = "none" /\ SessionStart

OneCall == issued = 0 /\ IssueCall(1, Temperatures)

Next ==
    \/ OneSession
    \/ OneCall
    \/ \E c \in Slots : BackoffInvoke(c)
    \/ \E c \in Slots : CacheReadReturns(c)
    \/ \E c \in Slots : CacheReadThrows(c)
    \/ \E c \in Slots : ProviderReturns(c, Responses, {NoChatUsage, UsageA})
    \/ \E c \in Slots : ProviderThrows(c)
    \/ \E c \in Slots : CacheWriteReturns(c)
    \/ \E c \in Slots : CacheWriteThrows(c)
    \/ \E c \in Slots : ContextResume(c)
    \/ SessionReturn
    \/ SessionThrow

Spec == Init /\ [][Next]_vars

(***************************************************************************)
(* SessionSpec: sessions one after another, each issuing generate calls    *)
(* one at a time and awaiting each, over a backend that keeps what is      *)
(* written and does not throw.                                             *)
(***************************************************************************)
SessionInit ==
    /\ backoffOptions = [given |-> TRUE, numOfAttempts |-> MaxAttempts]
    /\ cacheConfig = "reliable"
    /\ openaiConfigured = TRUE
    /\ cache = EmptyCache
    /\ actionState = IdleAction
    /\ extraction = NoExtraction
    /\ exportState = NoExport
    /\ Idle

SessionTemperatures == {"zero", "nonzero"}
SessionResponses == {TextGood, TextWrongType, TextBraceInString}

SessionNext ==
    \/ issued < MaxCalls /\ SessionStart
    \/ issued < MaxCalls /\ IssueCall(1, SessionTemperatures)
    \/ \E c \in Slots : BackoffInvoke(c)
    \/ \E c \in Slots : CacheReadReturns(c)
    \/ \E c \in Slots : ProviderReturns(c, SessionResponses, {UsageA, UsageB})
    \/ \E c \in Slots : ProviderThrows(c)
    \/ \E c \in Slots : CacheWriteReturns(c)
    \/ \E c \in Slots : ContextResume(c)
    \/ SessionReturn
    \/ SessionThrow

SessionSpec == SessionInit /\ [][SessionNext]_vars

(***************************************************************************)
(* ExtractSpec: extractLastJSON applied to every text put together from    *)
(* up to MaxTokens pieces.                                                 *)
(***************************************************************************)
\* braces, a prose character, strings that hold a brace, a key
ExtractTokens ==
    {<<LB>>, <<RB>>, <<"a">>, <<QT, LB, QT>>, <<QT, RB, QT>>, <<QT, "a", QT, CL>>}

RECURSIVE Flatten(_)
Flatten(tokens) ==
    IF tokens = <<>> THEN <<>> ELSE Head(tokens) \o Flatten(Tail(tokens))

ExtractInputs ==
    {Flatten(ts) : ts \in UNION {[1..n -> ExtractTokens] : n \in 0..MaxTokens}}

ExtractInit ==
    /\ backoffOptions = Undefined
    /\ cacheConfig = "none"
    /\ openaiConfigured = TRUE
    /\ cache = EmptyCache
    /\ actionState = IdleAction
    /\ extraction \in {[NoExtraction EXCEPT !.input = t] : t \in ExtractInputs}
    /\ exportState = NoExport
    /\ Idle

\* extractedJson = extractLastJSON(response)
ExtractApply ==
    /\ ~extraction.applied
    /\ extraction' = [extraction EXCEPT
                          !.output = extractLastJSON(extraction.input),
                          !.applied = TRUE]
    /\ UNCHANGED <<configVars, exportState, cache, sessionState, sessionUsage, sessionError,
                   reported, chargedCalls, caught, lastOk, issued, calls,
                   actionState>>

\* extractLastJSON called on the string it returned
ExtractAgain ==
    /\ extraction.applied
    /\ ~extraction.reapplied
    /\ extraction.output # Null
    /\ extraction' = [extraction EXCEPT
                          !.again = extractLastJSON(extraction.output),
                          !.reapplied = TRUE]
    /\ UNCHANGED <<configVars, exportState, cache, sessionState, sessionUsage, sessionError,
                   reported, chargedCalls, caught, lastOk, issued, calls,
                   actionState>>

ExtractNext ==
    \/ ExtractApply
    \/ ExtractAgain

ExtractSpec == ExtractInit /\ [][ExtractNext]_vars

(***************************************************************************)
(* ExportSpec: a CompositeExporter over 0..MaxExporters exporters serves    *)
(* export calls one after another; the wrapped exporters call back in any  *)
(* order, each with SUCCESS or FAILED.                                     *)
(***************************************************************************)
ExportResultCodes == {"SUCCESS", "FAILED"}

ExportUnchanged ==
    UNCHANGED <<configVars, extraction, cache, sessionState, sessionUsage,
                sessionError, reported, chargedCalls, caught, lastOk, issued,
                calls, actionState>>

ExportInit ==
    /\ backoffOptions = Undefined
    /\ cacheConfig = "none"
    /\ openaiConfigured = TRUE
    /\ cache = EmptyCache
    /\ actionState = IdleAction
    /\ extraction = NoExtraction
    /\ exportState \in {[NoExport EXCEPT !.exporters = n] : n \in 0..MaxExporters}
    /\ Idle

\* export(spans, resultCallback), lines 10-25: fresh counters, then every
\* wrapped exporter is handed handleCallback
ExportStarted(x) ==
    [x EXCEPT !.pc = "exporting", !.exports = @ + 1,
              !.pending = 1..x.exporters,
              !.codes = [e \in 1..x.exporters |-> "none"],
              !.completedExporters = 0, !.failed = FALSE,
              !.callbacks = 0, !.reported = "none"]

\* the span processor calls export once the call before it has been served
\* by every wrapped exporter
Export ==
    /\ exportState.exports < MaxExports
    /\ exportState.pending = {}
    /\ exportState' = ExportStarted(exportState)
    /\ ExportUnchanged

\* handleCallback(result), lines 14-22, called by wrapped exporter e
handleCallback(x, e, code) ==
    LET completed == x.completedExporters + 1
        failed == x.failed \/ code # "SUCCESS"
    IN  [x EXCEPT !.pending = @ \ {e},
                  !.codes[e] = code,
                  !.completedExporters = completed,
                  !.failed = failed,
                  !.callbacks = IF completed = x.exporters THEN @ + 1 ELSE @,
                  !.reported = IF completed = x.exporters
                               THEN (IF failed THEN "FAILED" ELSE "SUCCESS")
                               ELSE @]

\* one of the wrapped exporters finishes and calls back
ExporterCallsBack ==
    /\ exportState.pc = "exporting"
    /\ \E e \in exportState.pending, code \in ExportResultCodes :
          exportState' = handleCallback(exportState, e, code)
    /\ ExportUnchanged

ExportNext ==
    \/ Export
    \/ ExporterCallsBack

ExportSpec == ExportInit /\ [][ExportNext]_vars

(***************************************************************************)
(* NoCacheSpec: the sessions and calls of SessionSpec when elelem.init is  *)
(* given no cache backend.                                                 *)
(***************************************************************************)
NoCacheInit ==
    /\ backoffOptions = [given |-> TRUE, numOfAttempts |-> MaxAttempts]
    /\ cacheConfig = "none"
    /\ openaiConfigured = TRUE
    /\ cache = EmptyCache
    /\ actionState = IdleAction
    /\ extraction = NoExtraction
    /\ exportState = NoExport
    /\ Idle

NoCacheSpec == NoCacheInit /\ [][SessionNext]_vars

(***************************************************************************)
(* ConcurrentSpec: one session whose contextFn has up to two generate      *)
(* calls in flight at a time, over a backend that does not throw.          *)
(***************************************************************************)
ConcurrentInit ==
    /\ backoffOptions = [given |-> TRUE, numOfAttempts |-> MaxAttempts]
    /\ cacheConfig = "reliable"
    /\ openaiConfigured = TRUE
    /\ cache = EmptyCache
    /\ actionState = IdleAction
    /\ extraction = NoExtraction
    /\ exportState = NoExport
    /\ Idle

ConcurrentTemperatures == {"nonzero"}
ConcurrentResponses == {TextGood, TextWrongType}

ConcurrentNext ==
    \/ OneSession
    \/ \E c \in Slots : issued < MaxCalls /\ IssueSibling(c, ConcurrentTemperatures)
    \/ \E c \in Slots : BackoffInvoke(c)
    \/ \E c \in Slots : CacheReadReturns(c)
    \/ \E c \in Slots : ProviderReturns(c, ConcurrentResponses, {UsageA, UsageB})
    \/ \E c \in Slots : CacheWriteReturns(c)
    \/ \E c \in Slots : ContextResume(c)
    \/ SessionReturn
    \/ SessionThrow
    \/ SessionThrowInFlight

ConcurrentSpec == ConcurrentInit /\ [][ConcurrentNext]_vars

(***************************************************************************)
(* OverlapSpec: one session whose contextFn has up to two action calls     *)
(* with the same actionContext in flight at a time.                        *)
(***************************************************************************)
OverlapInit ==
    /\ backoffOptions = Undefined
    /\ cacheConfig \in {"reliable", "flaky"}
    /\ openaiConfigured = TRUE
    /\ cache = EmptyCache
    /\ actionState \in
          {[IdleAction EXCEPT !.cacheSerializer = s, !.cacheDeserializer = d] :
              s \in Serializers, d \in Deserializers}
    /\ extraction = NoExtraction
    /\ exportState = NoExport
    /\ Idle

OverlapContexts == {"ctx1"}
OverlapOptions == {[given |-> TRUE, numOfAttempts |-> MaxAttempts]}

OverlapNext ==
    \/ actionState.issued = 0 /\ sessionState = "none" /\ SessionStart
    \/ ActionIssue(OverlapContexts, OverlapOptions)
    \/ SiblingIssue(OverlapContexts, OverlapOptions)
    \/ ActionBackoffInvoke
    \/ ActionCacheReadReturns
    \/ ActionCacheReadThrows
    \/ OperationReturns(OperationResults)
    \/ OperationThrows
    \/ ActionCacheWriteReturns
    \/ ActionCacheWriteThrows
    \/ ActionResume
    \/ SiblingBackoffInvoke
    \/ SiblingCacheReadReturns
    \/ SiblingCacheReadThrows
    \/ SiblingOperationReturns(OperationResults)
    \/ SiblingOperationThrows
    \/ SiblingCacheWriteReturns
    \/ SiblingCacheWriteThrows
    \/ SiblingResume
    \/ SessionReturn
    \/ SessionThrow

OverlapSpec == OverlapInit /\ [][OverlapNext]_vars

(***************************************************************************)
(* ActionSpec: one session that issues action calls one at a time and      *)
(* awaits each, under every serializer pair, backoff parameter and         *)
(* backend.                                                                *)
(***************************************************************************)
ActionInit ==
    /\ backoffOptions = Undefined
    /\ cacheConfig \in {"none", "reliable", "flaky"}
    /\ openaiConfigured = TRUE
    /\ cache = EmptyCache
    /\ actionState \in
          {[IdleAction EXCEPT !.cacheSerializer = s, !.cacheDeserializer = d] :
              s \in Serializers, d \in Deserializers}
    /\ extraction = NoExtraction
    /\ exportState = NoExport
    /\ Idle

ActionNext ==
    \/ actionState.issued = 0 /\ sessionState = "none" /\ SessionStart
    \/ ActionIssue(ActionContexts, BackoffOptionValues)
    \/ ActionBackoffInvoke
    \/ ActionCacheReadReturns
    \/ ActionCacheReadThrows
    \/ OperationReturns(OperationResults)
    \/ OperationThrows
    \/ ActionCacheWriteReturns
    \/ ActionCacheWriteThrows
    \/ ActionResume
    \/ SessionReturn
    \/ SessionThrow

ActionSpec == ActionInit /\ [][ActionNext]_vars

(***************************************************************************)
(* RetrySpec: one session whose contextFn awaits a generate call and action *)
(* calls one after another, and catches what they throw; both kinds of     *)
(* call run under withRetries.                                             *)
(***************************************************************************)
RetryInit ==
    /\ backoffOptions \in BackoffOptionValues
    /\ cacheConfig = "reliable"
    /\ openaiConfigured = TRUE
    /\ cache = EmptyCache
    /\ actionState = IdleAction
    /\ extraction = NoExtraction
    /\ exportState = NoExport
    /\ Idle

RetryTemperatures == {"zero", "nonzero"}
RetryResponses == {TextGood, TextWrongType}
RetryOptions == {[given |-> TRUE, numOfAttempts |-> MaxAttempts + 1]}

RetryNext ==
    \/ issued = 0 /\ actionState.issued = 0 /\ sessionState = "none" /\ SessionStart
    \/ issued = 0 /\ IssueCall(1, RetryTemperatures)
    \/ \E c \in Slots : BackoffInvoke(c)
    \/ \E c \in Slots : CacheReadReturns(c)
    \/ \E c \in Slots : ProviderReturns(c, RetryResponses, {UsageA})
    \/ \E c \in Slots : ProviderThrows(c)
    \/ \E c \in Slots : CacheWriteReturns(c)
    \/ \E c \in Slots : ContextResume(c)
    \/ ActionIssue(OverlapContexts, RetryOptions)
    \/ ActionBackoffInvoke
    \/ ActionCacheReadReturns
    \/ OperationReturns({<<"r">>})
    \/ OperationThrows
    \/ ActionCacheWriteReturns
    \/ ActionResume
    \/ SessionReturn
    \/ SessionThrow

RetrySpec == RetryInit /\ [][RetryNext]_vars

(***************************************************************************)
(* LocalSpec: one session whose contextFn first makes action calls and,    *)
(* when none was made or the last of them failed for good, goes on to      *)
(* generate calls at temperature 0, one after another, over a backend      *)
(* whose calls may throw; while one of them is in flight it may start a    *)
(* sibling generate call whose responses do not fit the schema.            *)
(***************************************************************************)
LocalInit ==
    /\ backoffOptions = [given |-> TRUE, numOfAttempts |-> MaxAttempts]
    /\ cacheConfig = "flaky"
    /\ openaiConfigured = TRUE
    /\ cache = EmptyCache
    /\ actionState = IdleAction
    /\ extraction = NoExtraction
    /\ exportState = NoExport
    /\ Idle

LocalTemperatures == {"zero"}
LocalResponses == {TextGood, TextWrongType}
LocalOptions == {[given |-> TRUE, numOfAttempts |-> MaxAttempts]}

LocalNext ==
    \/ OneSession
    \/ /\ issued < MaxCalls + 1
       /\ (issued = 0 /\ actionState.issued > 0) => startsWithNoRetry(caught.message)
       /\ IssueSibling(1, LocalTemperatures)
    \/ /\ issued < MaxCalls + 1
       /\ calls[1].pc # "idle"
       /\ IssueSibling(2, LocalTemperatures)
    \/ \E c \in Slots : BackoffInvoke(c)
    \/ \E c \in Slots : CacheReadReturns(c)
    \/ CacheReadThrows(1)
    \/ ProviderReturns(1, LocalResponses, {UsageA})
    \/ ProviderReturns(2, {TextWrongType}, {UsageA})
    \/ CacheWriteReturns(1)
    \/ CacheWriteThrows(1)
    \/ \E c \in Slots : ContextResume(c)
    \/ issued = 0 /\ ActionIssue({"ctx1"}, LocalOptions)
    \/ ActionBackoffInvoke
    \/ ActionCacheReadReturns
    \/ OperationReturns({<<"r">>})
    \/ OperationThrows
    \/ ActionCacheWriteReturns
    \/ ActionResume
    \/ SessionReturn
    \/ SessionThrow

LocalSpec == LocalInit /\ [][LocalNext]_vars

(***************************************************************************)
(* LiveSpec: one session with one generate call over a backend whose       *)
(* calls may throw, where backOff's timers fire and the awaited cache and  *)
(* provider calls settle.                                                  *)
(***************************************************************************)
LiveInit ==
    /\ backoffOptions = [given |-> TRUE, numOfAttempts |-> MaxAttempts]
    /\ cacheConfig = "flaky"
    /\ openaiConfigured = TRUE
    /\ cache = EmptyCache
    /\ actionState = IdleAction
    /\ extraction = NoExtraction
    /\ exportState = NoExport
    /\ Idle

LiveTemperatures == {"zero", "nonzero"}
LiveResponses == {TextGood, TextWrongType}

\* a call in flight takes its next step: backOff's timer fires and invokes
\* the request function, or an awaited cache or provider call settles, by
\* returning or by throwing
CallSteps ==
    \E c \in Slots :
        \/ BackoffInvoke(c)
        \/ CacheReadThrows(c)
        \/ CacheReadReturns(c)
        \/ ProviderThrows(c)
        \/ ProviderReturns(c, LiveResponses, {UsageA})
        \/ CacheWriteThrows(c)
        \/ CacheWriteReturns(c)

LiveNext ==
    \/ OneSession
    \/ issued = 0 /\ IssueCall(1, LiveTemperatures)
    \/ CallSteps
    \/ \E c \in Slots : ContextResume(c)
    \/ SessionReturn
    \/ SessionThrow

LiveSpec == LiveInit /\ [][LiveNext]_vars /\ WF_vars(CallSteps)

(***************************************************************************)
(* Claims.                                                                 *)
(***************************************************************************)
AllKinds(r, kind) == \A i \in 1..Len(r.kinds) : r.kinds[i] = kind

\* C1: in a call at temperature 0 whose first provider response fails
\* schema validation, the attempt body (formatter, provider call) runs
\* exactly once, the driver still makes exactly N invocations, and the
\* call fails only after the N-th, with the remembered ElelemError.
C1_PermanentFailureBudget ==
    \A c \in Slots :
        LET r == calls[c]
        IN  (r.temperature = "zero" /\ r.kinds # <<>> /\ r.kinds[1] = "schema") =>
              /\ r.formatterCalls = 1
              /\ r.providerCalls = 1
              /\ r.kinds = <<"schema">>
              /\ r.pc \in {"backoff", "thrown"}
              /\ r.invocations <= GenerateAttempts
              /\ r.pc = "thrown" <=> r.invocations = GenerateAttempts
              /\ r.pc = "thrown" =>
                    /\ r.errorClass = "ElelemError"
                    /\ r.errorMessage =
                          <<NoRetryMarker, "Invalid schema returned from LLM">>

C1_Witness ==
    \E c \in Slots :
        /\ calls[c].temperature = "zero"
        /\ calls[c].kinds = <<"schema">>
        /\ calls[c].pc = "thrown"
        /\ calls[c].invocations = DefaultAttempts
        /\ calls[c].formatterCalls = 1
        /\ backoffOptions = Undefined

\* C2: in a call whose temperature is non-zero or absent, a schema
\* failure is retried: when every attempt ended in a schema failure and the
\* call is over, the attempt body (formatter, provider call) ran exactly N
\* times (3 without backoffOptions) and the call threw an ElelemError.
C2_SchemaFailureRetried ==
    \A c \in Slots :
        LET r == calls[c]
        IN  (/\ r.temperature # "zero"
             /\ r.pc \in {"returned", "thrown"}
             /\ r.kinds # <<>>
             /\ AllKinds(r, "schema")) =>
              /\ r.pc = "thrown"
              /\ r.formatterCalls = GenerateAttempts
              /\ r.providerCalls = GenerateAttempts
              /\ r.invocations = GenerateAttempts
              /\ backoffOptions = Undefined => r.formatterCalls = DefaultAttempts
              /\ r.errorClass = "ElelemError"
              /\ r.errorMessage = <<"Invalid schema returned from LLM">>

C2_Witness ==
    \E c \in Slots :
        /\ calls[c].temperature = "absent"
        /\ calls[c].pc = "thrown"
        /\ calls[c].kinds = <<"schema", "schema", "schema">>
        /\ calls[c].formatterCalls = DefaultAttempts

\* C8: every failure that escapes a context.openai call is an ElelemError,
\* also the one raised before the retry engine is entered, and every
\* failure that escapes session() is an ElelemError with the triggering
\* error's message.
C8_AlwaysElelemError ==
    /\ \A c \in Slots :
          calls[c].pc = "thrown" => calls[c].errorClass = "ElelemError"
    /\ sessionState = "thrown" =>
          sessionError \in {caught.message, <<"contextFunction failed">>}

\* C9: a cached text is a hit only if it parses as JSON and satisfies the
\* schema; any other cached text is a miss: no attempt fails because of
\* the cached text.
C9_BadCachedTextIsMiss ==
    \A c \in Slots :
        LET r == calls[c]
        IN  /\ r.cacheHit =>
                  /\ JSONParses(CacheReadValue(KeyOf(r)))
                  /\ SchemaOk(JSONParse(CacheReadValue(KeyOf(r))))
            /\ \A i \in 1..Len(r.kinds) : r.kinds[i] # "cachedParse"

\* C10: the step of a generate attempt that finds a cache hit invokes no
\* provider and leaves the attempt-level ledger at zero and the call-level
\* and session-level ledgers as they were.
C10_HitChargesNothing ==
    [][\A c \in Slots :
          (calls'[c].cacheHit /\ calls'[c] # calls[c]) =>
              /\ calls[c].pc = "cacheRead"
              /\ calls'[c].providerCalls = calls[c].providerCalls
              /\ calls[c].generateAttemptUsage = ZeroUsage
              /\ calls'[c].generateAttemptUsage = ZeroUsage
              /\ calls'[c].generateUsage = calls[c].generateUsage
              /\ sessionUsage' = sessionUsage]_vars

C10_Witness ==
    \E c \in Slots :
        /\ calls[c].cacheHit
        /\ calls[c].pc = "returned"
        /\ calls[c].kinds = <<"cacheRead", "hit">>
        /\ calls[c].providerCalls = 0
        /\ sessionUsage = ZeroUsage

TokensEqual(a, b) ==
    /\ a.prompt_tokens = b.prompt_tokens
    /\ a.completion_tokens = b.completion_tokens
    /\ a.total_tokens = b.total_tokens

C4_CacheIdempotence ==
    \A c \in Slots :
        LET r == calls[c]
        IN  (r.pc \in {"returned", "thrown"} /\ lastOk[KeyOf(r)] # Null) =>
              /\ r.pc = "returned"
              /\ r.providerCalls = 0
              /\ r.generateUsage = ZeroUsage
              /\ r.result = lastOk[KeyOf(r)]

C6_ActionDedup ==
    LET a == actionState
        x == a.actionContext
    IN  (/\ cacheConfig = "reliable"
         /\ a.firstResult[x] # Null
         /\ a.pc \in {"returned", "thrown"}
         /\ ~DeserializerThrows(a.cacheDeserializer,
                                cacheSerializer(a.cacheSerializer, a.firstResult[x])))
        => /\ a.pc = "returned"
           /\ ~a.ranAfterReturn[x]
           /\ a.value = cacheDeserializer(a.cacheDeserializer,
                            cacheSerializer(a.cacheSerializer, a.firstResult[x]))

\* C7: an attempt that fails after the operation has run, because the cache
\* write exhausted its retries, does not cause the operation to be executed
\* again for that actionContext.
C7_NoRunAfterWriteFailure ==
    \A x \in ActionContexts : ~actionState.ranAgain[x]

\* C11: generate writes to the cache only in an attempt that missed and
\* whose extracted JSON parsed and satisfied the schema; what it writes is
\* the extracted JSON text, under the key it read; an attempt that hit or
\* failed writes nothing.
C11_WriteOnlyValidMiss ==
    [][(cache' # cache \/ \E c \in Slots : calls'[c].cacheWrites > calls[c].cacheWrites)
       => \E c \in Slots :
             LET r == calls[c]
             IN  /\ r.pc = "cacheWrite"
                 /\ ~r.cacheHit
                 /\ r.extractedJson # Null
                 /\ JSONParses(r.extractedJson)
                 /\ SchemaOk(JSONParse(r.extractedJson))
                 /\ calls'[c].pc = "returned"
                 /\ calls'[c].cacheWrites = r.cacheWrites + 1
                 /\ cache' = IF cacheConfig = "none" THEN cache
                             ELSE [cache EXCEPT ![r.temperature] = r.extractedJson]
                 /\ \A o \in Slots \ {c} : calls'[o] = calls[o]]_vars

C11_Witness ==
    \E c \in Slots :
        /\ cacheConfig = "flaky"
        /\ calls[c].pc = "returned"
        /\ calls[c].kinds = <<"schema", "ok">>
        /\ calls[c].cacheWrites = 1
        /\ calls[c].extractedJson = <<LB, SP, QT, "a", QT, CL, QT, LB, RB, QT, RB>>
        /\ cache[calls[c].temperature] = calls[c].extractedJson

\* C12: a JSON parse failure of the extracted text is permanent exactly at
\* temperature 0: there the attempt body does not run again in the call;
\* with a non-zero or missing temperature the failure is retried and the
\* provider is invoked again on the next attempt.
C12_ParseFailurePermanentIffZero ==
    \A c \in Slots :
        LET r == calls[c]
        IN  (r.kinds # <<>> /\ r.kinds[1] = "parse") =>
              IF r.temperature = "zero"
              THEN /\ Len(r.kinds) = 1
                   /\ r.providerCalls = 1
                   /\ r.formatterCalls = 1
                   /\ r.pc \in {"backoff", "thrown"}
                   /\ r.pc = "thrown" => r.invocations = GenerateAttempts
              ELSE /\ r.pc = "thrown" => Len(r.kinds) = GenerateAttempts
                   /\ AllKinds(r, "parse") =>
                         /\ r.nonRetryErr = NoError
                         /\ r.pc \in {"backoff", "thrown"} =>
                               r.providerCalls = Len(r.kinds)

C12_Witness ==
    /\ GenerateAttempts = 2
    /\ \E c \in Slots :
          /\ calls[c].temperature = "absent"
          /\ calls[c].pc = "thrown"
          /\ calls[c].kinds = <<"parse", "parse">>
          /\ calls[c].providerCalls = 2

\* C13: a response without extractable JSON is a retryable failure at
\* every temperature, 0 included: the attempt body runs again on the next
\* attempt, up to the attempt bound.
C13_NoJsonRetried ==
    \A c \in Slots :
        LET r == calls[c]
        IN  (r.kinds # <<>> /\ AllKinds(r, "noJson")) =>
              /\ r.nonRetryErr = NoError
              /\ r.formatterCalls \in {Len(r.kinds), Len(r.kinds) + 1}
              /\ r.pc \in {"backoff", "thrown"} =>
                    /\ r.providerCalls = Len(r.kinds)
                    /\ r.formatterCalls = Len(r.kinds)
              /\ r.pc = "thrown" <=> Len(r.kinds) = GenerateAttempts

C13_Witness ==
    /\ GenerateAttempts = 2
    /\ \E c \in Slots :
          /\ calls[c].temperature = "zero"
          /\ calls[c].pc = "thrown"
          /\ calls[c].kinds = <<"noJson", "noJson">>
          /\ calls[c].providerCalls = 2

\* C14 as stated: at temperature 0 a response with malformed or absent JSON
\* is a permanent failure: after the first such attempt the provider is not
\* invoked again in that call.
C14_MalformedOrAbsentPermanent ==
    \A c \in Slots :
        LET r == calls[c]
        IN  (/\ r.temperature = "zero"
             /\ r.kinds # <<>>
             /\ r.kinds[1] \in {"parse", "noJson"})
            => r.providerCalls = 1 /\ Len(r.kinds) = 1

\* C14 as amended: at temperature 0 a response with malformed JSON is a
\* permanent failure (the provider is invoked once in the call), while a
\* response with no JSON at all is retried (the provider is invoked on
\* every attempt up to the bound).
C14_MalformedPermanentAbsentRetried ==
    \A c \in Slots :
        LET r == calls[c]
        IN  (r.temperature = "zero" /\ r.pc = "thrown" /\ r.kinds # <<>>) =>
              /\ r.kinds[1] = "parse" =>
                    r.providerCalls = 1 /\ r.kinds = <<"parse">>
              /\ AllKinds(r, "noJson") => r.providerCalls = GenerateAttempts

C14_Witness ==
    /\ GenerateAttempts = 3
    /\ \E c \in Slots :
          /\ calls[c].temperature = "zero"
          /\ calls[c].pc = "thrown"
          /\ calls[c].kinds = <<"parse">>
          /\ calls[c].invocations = 3
          /\ calls[c].providerCalls = 1

\* C15: a failure of the provider call is retryable at every temperature:
\* the provider is invoked again on the next attempt, the failure reaches
\* the caller only when the bound is exhausted, and when a later attempt
\* succeeds the call returns that attempt's result.
C15_ProviderFailureRetried ==
    \A c \in Slots :
        LET r == calls[c]
            n == Len(r.kinds)
        IN  (n > 0 /\ r.kinds[1] = "provider") =>
              /\ AllKinds(r, "provider") =>
                    /\ r.nonRetryErr = NoError
                    /\ r.pc = "thrown" <=> n = GenerateAttempts
                    /\ r.pc \in {"backoff", "thrown"} => r.providerCalls = n
                    /\ r.pc = "thrown" =>
                          r.errorMessage = <<"No chat response from api!">>
              /\ (r.pc = "returned" /\ \A i \in 1..(n - 1) : r.kinds[i] = "provider") =>
                    /\ r.kinds[n] = "ok"
                    /\ r.providerCalls = n
                    /\ r.result = JSONParse(r.extractedJson)
                    /\ SchemaOk(r.result)

C15_Witness ==
    \E c \in Slots :
        /\ calls[c].temperature = "zero"
        /\ calls[c].pc = "returned"
        /\ calls[c].kinds = <<"provider", "provider", "ok">>
        /\ calls[c].providerCalls = 3

\* the message each kind of unmarked failure of the attempt body carries
C16_MessageOf(kind) ==
    CASE kind = "noJson" -> <<"No JSON available in response">>
      [] kind = "provider" -> <<"No chat response from api!">>
      [] kind = "cacheRead" -> <<"cache read failed">>
      [] kind = "cacheWrite" -> <<"cache write failed">>
      [] kind = "schema" -> <<"Invalid schema returned from LLM">>
      [] OTHER -> <<"SyntaxError">>

\* C16: withRetries runs the operation until it first succeeds or the bound
\* is reached: it never makes more invocations than the bound; on the first
\* success it returns and makes no further attempt; on exhaustion it raises
\* the error the last attempt raised.
C16_UntilSuccessOrBound ==
    \A c \in Slots :
        LET r == calls[c]
            n == Len(r.kinds)
        IN  /\ r.invocations <= GenerateAttempts
            /\ n <= r.invocations
            /\ r.attemptCounter = n
            /\ \A i \in 1..(n - 1) : r.kinds[i] \notin {"ok", "hit"}
            /\ r.pc = "returned" =>
                  /\ r.kinds[n] \in {"ok", "hit"}
                  /\ r.invocations = n
            /\ (r.pc = "thrown" /\ r.errorClass = "ElelemError") =>
                  /\ r.invocations = GenerateAttempts
                  /\ r.kinds[n] \notin {"ok", "hit"}
                  /\ r.errorMessage =
                        IF r.nonRetryErr # NoError THEN r.nonRetryErr
                        ELSE C16_MessageOf(r.kinds[n])

C16_Witness ==
    /\ GenerateAttempts = 3
    /\ \E c \in Slots :
          /\ calls[c].pc = "thrown"
          /\ calls[c].kinds = <<"provider", "noJson", "cacheWrite">>
          /\ calls[c].errorMessage = <<"cache write failed">>

\* C17: when the caller supplies no backoff configuration, every retry
\* loop of the pipeline is bounded by 3 attempts; here the action call's
\* own loop and its nested cache-read and cache-write loops.
C17_DefaultBoundThree ==
    (actionState.backoffOptions = Undefined) =>
        /\ actionState.attemptNumber <= DefaultAttempts
        /\ actionState.inner < DefaultAttempts

\* C18: the backoffOptions given to elelem.init bound only the generate
\* call's own retry loop; a failing cache read or cache write is attempted
\* the default number of times (3) whatever numOfAttempts is configured.
C18_CacheRetriesUseDefault ==
    [][\A c \in Slots :
          LET r == calls[c]
              gaveUp == /\ Len(calls'[c].kinds) = Len(r.kinds) + 1
                        /\ calls'[c].kinds[Len(r.kinds) + 1] \in {"cacheRead", "cacheWrite"}
          IN  (r.pc \in {"cacheRead", "cacheWrite"} /\ gaveUp) =>
                  r.inner + 1 = DefaultAttempts]_vars

\* C19: once session() has failed, the usage carried by the ElelemError it
\* raised is the session ledger as it was at the failure and does not
\* change afterwards, also while sibling calls are still in flight.
C19_ErrorUsageIsSnapshot ==
    [][(sessionState = "thrown" /\ sessionState' = "thrown")
       => SessionErrorUsage' = SessionErrorUsage]_vars

C21_OverlapAtMostOnceEach ==
    /\ actionState.ran <= 1
    /\ actionState.sibling.ran <= 1
    /\ actionState.afterWrite => actionState.ran = 0
    /\ actionState.sibling.afterWrite => actionState.sibling.ran = 0

\* C22: without a cache backend nothing is ever stored and every read
\* reports absent: every attempt of a generate call is a miss that invokes
\* the provider, calls still succeed, and a second call identical to one
\* that succeeded invokes the provider again.
C22_NoBackendDegrades ==
    /\ cache = EmptyCache
    /\ \A c \in Slots :
          LET r == calls[c]
              n == Len(r.kinds)
          IN  /\ ~r.cacheHit
              /\ \A i \in 1..n : r.kinds[i] \in {"ok", "schema", "noJson", "provider"}
              /\ r.pc \in {"backoff", "returned", "thrown"} => r.providerCalls = n
              /\ r.pc = "returned" =>
                    /\ r.kinds[n] = "ok"
                    /\ r.providerCalls >= 1
                    /\ SchemaOk(r.result)

C22_Witness ==
    /\ issued = 2
    /\ lastOk["zero"] # Null
    /\ \E c \in Slots :
          /\ calls[c].temperature = "zero"
          /\ calls[c].pc = "returned"
          /\ calls[c].providerCalls = 1
          /\ calls[c].cacheWrites = 1

\* how often ch occurs in text
RECURSIVE Count(_, _)
Count(text, ch) ==
    IF text = <<>> THEN 0
    ELSE (IF Head(text) = ch THEN 1 ELSE 0) + Count(Tail(text), ch)

Suffix(text, i) == SubSeq(text, i, Len(text))
Prefix(text, i) == SubSeq(text, 1, i)

\* the braces of text do not pair up
Unbalanced(text) ==
    \/ Count(text, LB) # Count(text, RB)
    \/ \E i \in 1..Len(text) : Count(Prefix(text, i), RB) > Count(Prefix(text, i), LB)

\* C23 as stated: for an input with unbalanced braces extractLastJSON
\* returns null.
C23_UnbalancedIsAbsent ==
    (extraction.applied /\ Unbalanced(extraction.input)) =>
        extraction.output = Null

\* C23 as amended: extractLastJSON returns null exactly when no suffix of
\* the input that starts with an opening brace has as many closing as
\* opening braces; so it returns null for an input without an opening or
\* without a closing brace, and can return an object for an input whose
\* braces are unbalanced.
C23_AbsentIffNoLevelSuffix ==
    LET input == extraction.input
    IN  extraction.applied =>
          /\ extraction.output = Null <=>
                ~\E i \in 1..Len(input) :
                    /\ input[i] = LB
                    /\ Count(Suffix(input, i), RB) = Count(Suffix(input, i), LB)
          /\ (Count(input, LB) = 0 \/ Count(input, RB) = 0) =>
                extraction.output = Null

C23_Witness ==
    /\ extraction.applied
    /\ extraction.input = <<LB, LB, RB>>
    /\ extraction.output = <<LB, RB>>

\* C24: a string returned by extractLastJSON is a brace-balanced substring
\* of the input: it starts with an opening brace, ends with the last
\* closing brace of the input, and its braces pair up.
C24_ResultIsBalanced ==
    LET input == extraction.input
        output == extraction.output
    IN  (extraction.applied /\ output # Null) =>
          /\ output[1] = LB
          /\ output[Len(output)] = RB
          /\ \E i \in 1..Len(input) :
                /\ output = SubSeq(input, i, i + Len(output) - 1)
                /\ Count(Suffix(input, i + Len(output)), RB) = 0
          /\ ~Unbalanced(output)

\* C25: when the text ends with a valid JSON object that follows text
\* without braces, extractLastJSON returns exactly that object, also when
\* string values inside the object contain braces.
C25_BracesInStrings ==
    LET input == extraction.input
    IN  extraction.applied =>
          \A i \in 1..Len(input) :
              (/\ input[i] = LB
               /\ JSONParses(Suffix(input, i))
               /\ Count(Prefix(input, i - 1), LB) = 0
               /\ Count(Prefix(input, i - 1), RB) = 0)
              => extraction.output = Suffix(input, i)

\* C26: a generate call at temperature 0 whose first attempt misses the
\* cache and gets a response holding one valid object that satisfies the
\* schema invokes the provider once, writes the cache once, runs no second
\* attempt, returns the parsed object, and returns as usage the token
\* counts the provider reported for that invocation (with their cost).
C26_EndToEnd ==
    \A c \in Slots :
        LET r == calls[c]
        IN  (/\ r.temperature = "zero"
             /\ r.pc = "returned"
             /\ r.kinds # <<>>
             /\ r.kinds[1] = "ok") =>
              /\ r.providerCalls = 1
              /\ r.cacheWrites = 1
              /\ r.invocations = 1
              /\ r.formatterCalls = 1
              /\ r.attemptCounter = 1
              /\ r.kinds = <<"ok">>
              /\ r.result = SchemaData(JSONParse(r.extractedJson))
              /\ SchemaOk(r.result)
              /\ \E usage \in {NoChatUsage, UsageA} :
                    /\ TokensEqual(UsageGiven(r), usage)
                    /\ UsageGiven(r).cost_usd =
                          IF usage = NoChatUsage THEN 0
                          ELSE estimateCost(usage, Model)

C26_Witness ==
    \E c \in Slots :
        /\ cache = [EmptyCache EXCEPT !["zero"] = TextGood]
        /\ cacheConfig = "reliable"
        /\ calls[c].temperature = "zero"
        /\ calls[c].pc = "returned"
        /\ calls[c].providerCalls = 1
        /\ calls[c].cacheWrites = 1
        /\ calls[c].attemptCounter = 1
        /\ calls[c].result = SchemaData(JSONParse(TextGood))
        /\ TokensEqual(calls[c].generateUsage, UsageA)

\* an attempt of call c has just failed: generate's catch raised its error
AttemptFailed(c) ==
    /\ Len(calls'[c].kinds) = Len(calls[c].kinds) + 1
    /\ calls'[c].kinds[Len(calls'[c].kinds)] \notin {"ok", "hit"}

\* C27 as stated: the ElelemError a failing attempt raises carries that
\* attempt's own usage (the attempt-level ledger), not what earlier
\* attempts of the call used.
C27_RaisedUsageIsAttemptLevel ==
    [][\A c \in Slots :
          AttemptFailed(c) =>
              RaisedUsage(calls'[c]) = calls'[c].generateAttemptUsage]_vars

\* C27 as amended: the ElelemError a failing attempt raises carries the
\* call-level ledger: the usage of all attempts of the call so far, the
\* failing one included.
C27_RaisedUsageIsCallLevel ==
    [][\A c \in Slots :
          AttemptFailed(c) =>
              /\ RaisedUsage(calls'[c]) = calls'[c].attemptSum
              /\ RaisedUsage(calls'[c]) =
                    SumUsage(calls[c].attemptSum, calls'[c].generateAttemptUsage)]_vars

C27_Witness ==
    \E c \in Slots :
        /\ calls[c].kinds = <<"schema", "noJson">>
        /\ calls[c].pc = "thrown"
        /\ calls[c].generateAttemptUsage = Charge(ZeroUsage, UsageA)
        /\ RaisedUsage(calls[c]) = Charge(Charge(ZeroUsage, UsageA), UsageA)
        /\ RaisedUsage(calls[c]) # calls[c].generateAttemptUsage

\* C28: in a withRetries invocation (of generate, of action) that has
\* remembered a no-retry error, no later step opens an attempt scope or
\* runs the operation (formatter, cache, provider; the action's operation):
\* the remembered error stays the same, each later invocation of backOff's
\* request function only counts as one more failed attempt, and the error
\* the invocation ends with is the remembered one.
C28_StickyNoRetry ==
    [][/\ \A c \in Slots :
             LET r == calls[c]
                 q == calls'[c]
             IN  (r.nonRetryErr # NoError /\ r.pc # "idle" /\ q.pc # "idle") =>
                   /\ startsWithNoRetry(r.nonRetryErr)
                   /\ q.nonRetryErr = r.nonRetryErr
                   /\ q.attemptCounter = r.attemptCounter
                   /\ q.kinds = r.kinds
                   /\ q.formatterCalls = r.formatterCalls
                   /\ q.providerCalls = r.providerCalls
                   /\ q.cacheWrites = r.cacheWrites
                   /\ q.generateUsage = r.generateUsage
                   /\ q.pc \in {"backoff", "thrown"}
                   /\ q.invocations > r.invocations =>
                         q.attemptNumber = r.attemptNumber + 1
                   /\ q.pc = "thrown" => q.errorMessage = r.nonRetryErr
       /\ LET a == actionState
              b == actionState'
          IN  (a.nonRetryErr # NoError /\ a.pc # "idle" /\ b.pc # "idle") =>
                /\ startsWithNoRetry(a.nonRetryErr)
                /\ b.nonRetryErr = a.nonRetryErr
                /\ b.ran = a.ran
                /\ b.executions = a.executions
                /\ b.store = a.store
                /\ b.pc \in {"backoff", "thrown"}
                /\ b.pc = "thrown" => b.errorMessage = a.nonRetryErr]_vars

C28_Witness ==
    /\ caught.class = "ElelemError"
    /\ caught.message = <<NoRetryMarker, "Invalid schema returned from LLM">>
    /\ sessionUsage = Charge(ZeroUsage, UsageA)
    /\ actionState.pc = "thrown"
    /\ actionState.nonRetryErr = <<NoRetryMarker, "operation failed">>
    /\ actionState.errorMessage = actionState.nonRetryErr
    /\ actionState.attemptNumber = MaxAttempts + 1
    /\ actionState.ran = 1

\* every field of ledger b is at least the field of ledger a
UsageGeq(b, a) ==
    /\ b.completion_tokens >= a.completion_tokens
    /\ b.prompt_tokens >= a.prompt_tokens
    /\ b.total_tokens >= a.total_tokens
    /\ b.cost_usd >= a.cost_usd

\* the attempt body of call record r is running
AttemptOpen(r) == r.formatterCalls > r.attemptCounter

\* C29: no step decreases a field of a ledger (the session ledger within a
\* session, the call ledger within a call, the attempt ledger within an
\* attempt); the attempt ledger is zero when an attempt starts; the call
\* ledger always equals the sum of the attempt ledgers of the call's
\* attempts so far, and that sum is the usage a successful call returns.
C29_LedgersAdditive ==
    [][/\ ~(sessionState # "running" /\ sessionState' = "running") =>
             UsageGeq(sessionUsage', sessionUsage)
       /\ \A c \in Slots :
             LET r == calls[c]
                 q == calls'[c]
             IN  /\ (r.pc # "idle" /\ q.pc # "idle") =>
                       UsageGeq(q.generateUsage, r.generateUsage)
                 /\ (q.pc # "idle" /\ q.formatterCalls = r.formatterCalls) =>
                       UsageGeq(q.generateAttemptUsage, r.generateAttemptUsage)
                 /\ (q.pc # "idle" /\ q.formatterCalls # r.formatterCalls) =>
                       /\ q.formatterCalls = r.formatterCalls + 1
                       /\ q.generateAttemptUsage = ZeroUsage
                 /\ q.pc # "idle" =>
                       q.generateUsage =
                          IF AttemptOpen(q)
                          THEN SumUsage(q.attemptSum, q.generateAttemptUsage)
                          ELSE q.attemptSum
                 /\ q.pc = "returned" => UsageGiven(q) = q.attemptSum]_vars

C29_Witness ==
    \E c \in Slots :
        /\ calls[c].pc = "returned"
        /\ calls[c].kinds = <<"schema", "ok">>
        /\ calls[c].generateAttemptUsage = Charge(ZeroUsage, UsageB)
        /\ TokensEqual(UsageGiven(calls[c]),
                       [completion_tokens |-> 2, prompt_tokens |-> 3,
                        total_tokens |-> 5])
        /\ sessionUsage.total_tokens > 5

\* the token fields of a ledger add up and no field is negative
WellFormed(ledger) ==
    /\ ledger.total_tokens = ledger.completion_tokens + ledger.prompt_tokens
    /\ ledger.completion_tokens >= 0
    /\ ledger.prompt_tokens >= 0
    /\ ledger.total_tokens >= 0
    /\ ledger.cost_usd >= 0

\* C30: the provider's usages have total_tokens = completion_tokens +
\* prompt_tokens and no negative field; then in every state the attempt
\* ledger and the call ledger of every call and the session ledger have
\* total_tokens = completion_tokens + prompt_tokens and no negative field.
C30_LedgersWellFormed ==
    /\ WellFormed(sessionUsage)
    /\ \A c \in Slots :
          /\ WellFormed(calls[c].generateUsage)
          /\ WellFormed(calls[c].generateAttemptUsage)

C30_Witness ==
    /\ sessionState = "returned"
    /\ issued = MaxCalls
    /\ sessionUsage.completion_tokens = 2
    /\ sessionUsage.prompt_tokens = 3
    /\ sessionUsage.total_tokens = 5
    /\ sessionUsage.cost_usd > 0

\* C38: extractLastJSON is idempotent on its output: called on a string it
\* returned, it returns that string.
C38_Idempotent ==
    extraction.reapplied => extraction.again = extraction.output

\* C39: every export call invokes resultCallback exactly once, for any
\* number of wrapped exporters (zero too) and any order of their callbacks:
\* never more than once, and once when every wrapped exporter has called
\* back; the code it reports is SUCCESS iff every exporter reported SUCCESS.
C39_ExportReportsOnce ==
    /\ exportState.callbacks <= 1
    /\ (exportState.pc = "exporting" /\ exportState.pending = {}) =>
          /\ exportState.callbacks = 1
          /\ exportState.reported \in ExportResultCodes
          /\ exportState.reported = "SUCCESS" <=>
                \A e \in 1..exportState.exporters :
                    exportState.codes[e] = "SUCCESS"
    /\ exportState.callbacks = 1 => exportState.pending = {}

\* the N of the attempt spans are 0, 1, 2, ... in the order of starting
Consecutive(names) == \A i \in 1..Len(names) : names[i] = i - 1

\* C31: in a withRetries invocation (generate's, and the nested cache-read
\* and cache-write ones) the attempts that run the operation get spans
\* named -attempt-0, -attempt-1, ... in order, without gaps or repeats, one
\* per attempt body run, and no attempt span is started while the span of
\* the attempt before it is still open.
C31_AttemptScopesInOrder ==
    \A c \in Slots :
        LET r == calls[c]
        IN  /\ Consecutive(r.names)
            /\ Len(r.names) = r.formatterCalls
            /\ r.scopes["chatId-attempt"].open => AttemptOpen(r)
            /\ ~r.scopes["chatId-attempt"].unended
            /\ Consecutive(r.innerNames)
            /\ r.pc \in {"cacheRead", "cacheWrite"} =>
                  /\ Len(r.innerNames) = r.inner + 1
                  /\ Len(r.innerNames) = r.innerCounter + 1
            /\ ~r.scopes["cache-read-attempt"].unended
            /\ ~r.scopes["cache-write-attempt"].unended

C31_Witness ==
    \E c \in Slots :
        /\ calls[c].pc = "returned"
        /\ calls[c].names = <<0, 1>>
        /\ calls[c].innerNames = <<0, 1>>
        /\ calls[c].kinds = <<"provider", "ok">>

\* the place of a step in the order of section 4.3
StepRank(step) ==
    CASE step = "cacheRead" -> 1
      [] step = "provider" -> 2
      [] step = "extract" -> 3
      [] step = "parse" -> 4
      [] step = "validate" -> 5
      [] step = "cacheWrite" -> 6
      [] step = "return" -> 7

HasStep(r, step) == \E i \in 1..Len(r.steps) : r.steps[i] = step

\* C32: in every generate attempt the steps come in one order: the cache
\* read first; the provider call only after a read that missed, and before
\* the extraction; extraction before parsing, parsing before validation;
\* the cache write only after a validation that succeeded, and before the
\* attempt returns.
C32_StepOrder ==
    \A c \in Slots :
        LET r == calls[c]
            n == Len(r.steps)
        IN  /\ \A i \in 1..n, j \in 1..n :
                  i < j => StepRank(r.steps[i]) < StepRank(r.steps[j])
            /\ n > 0 => r.steps[1] = "cacheRead"
            /\ HasStep(r, "provider") => ~r.cacheHit
            /\ r.pc = "provider" => r.steps = <<"cacheRead">> /\ ~r.cacheHit
            /\ HasStep(r, "extract") => (HasStep(r, "provider") <=> ~r.cacheHit)
            /\ HasStep(r, "parse") =>
                  HasStep(r, "extract") /\ r.extractedJson # Null
            /\ HasStep(r, "validate") =>
                  HasStep(r, "parse") /\ JSONParses(r.extractedJson)
            /\ (HasStep(r, "cacheWrite") \/ r.pc = "cacheWrite") =>
                  /\ HasStep(r, "validate")
                  /\ SchemaOk(JSONParse(r.extractedJson))
                  /\ ~r.cacheHit
            /\ HasStep(r, "return") =>
                  /\ r.pc = "returned"
                  /\ HasStep(r, "validate")
                  /\ SchemaOk(JSONParse(r.extractedJson))
                  /\ HasStep(r, "cacheWrite") <=> ~r.cacheHit

C32_Witness ==
    \E c \in Slots :
        /\ calls[c].kinds = <<"schema", "ok">>
        /\ calls[c].steps =
              <<"cacheRead", "provider", "extract", "parse", "validate",
                "cacheWrite", "return">>

\* the generate call of record r is over
CallOver(r) == r.pc \in {"returned", "thrown"}

\* C34: every span the pipeline starts is ended exactly once, on every
\* path: no span is ended again after it has ended, none is left open when
\* a later span of its name starts, and none is open when the call is over.
C34_ScopesClosedOnce ==
    \A c \in Slots : \A n \in ScopeNames :
        LET scope == calls[c].scopes[n]
        IN  /\ ~scope.again
            /\ ~scope.unended
            /\ CallOver(calls[c]) => ~scope.open

\* C35: a text that generate wrote to the cache, read back under the same
\* key and schema, is a hit and makes that attempt succeed: extraction,
\* parsing and validation of the cached text succeed, the attempt returns
\* the object the text stands for, and the provider is not invoked.  (The
\* cache starts empty, so what is read is what generate wrote.)
C35_NoCachePoisoning ==
    \A c \in Slots :
        LET r == calls[c]
        IN  (r.cacheHit /\ ~AttemptOpen(r)) =>
              /\ r.pc = "returned"
              /\ r.kinds[Len(r.kinds)] = "hit"
              /\ ~HasStep(r, "provider")
              /\ r.extractedJson = cache[KeyOf(r)]
              /\ r.result = SchemaData(JSONParse(cache[KeyOf(r)]))

\* how an attempt ends in which the provider was invoked
ProviderKinds == {"ok", "schema", "noJson", "parse", "provider", "cacheWrite"}

\* C36: when the cache write of an attempt whose response validated gives
\* up, the attempt fails with an error that is retried (no marker), no
\* result is kept, and the usage already charged stays; the attempt after
\* it, unless its cache read fails, invokes the provider again, so the
\* provider has been invoked once per such attempt, and the call ledger and
\* the session ledger hold the usage of all of them.
C36_WriteFailureDiscardsResult ==
    [][\A c \in Slots :
          LET r == calls[c]
              q == calls'[c]
              n == Len(q.kinds)
          IN  /\ (r.pc = "cacheWrite" /\ q # r /\ q.cacheWrites = r.cacheWrites
                  /\ q.inner = r.inner) =>
                    /\ q.kinds = Append(r.kinds, "cacheWrite")
                    /\ q.pc \in {"backoff", "thrown"}
                    /\ q.pc = "thrown" => q.errorMessage = <<"cache write failed">>
                    /\ q.nonRetryErr = NoError
                    /\ q.result = Null
                    /\ q.generateUsage = r.generateUsage
                    /\ sessionUsage' = sessionUsage
                    /\ cache' = cache
              /\ \A i \in 1..n :
                    (q.kinds[i] = "cacheWrite" /\ i < n) =>
                        q.kinds[i + 1] \in ProviderKinds \cup {"cacheRead"}
              /\ q.pc # "idle" =>
                    /\ q.providerCalls =
                          Cardinality({i \in 1..n : q.kinds[i] \in ProviderKinds})
                          + (IF q.pc = "cacheWrite" THEN 1 ELSE 0)
                    /\ TokensEqual(sessionUsage', q.generateUsage)]_vars

C36_Witness ==
    \E c \in Slots :
        /\ calls[c].pc = "returned"
        /\ calls[c].kinds = <<"cacheWrite", "ok">>
        /\ calls[c].providerCalls = 2
        /\ calls[c].generateUsage.total_tokens = 4
        /\ sessionUsage.total_tokens = 4

\* the fields of a call that withRetries and backOff keep for it
RetryState(r) ==
    [attemptNumber |-> r.attemptNumber, attemptCounter |-> r.attemptCounter,
     nonRetryErr |-> r.nonRetryErr, inner |-> r.inner]

\* C33: the retry state belongs to one invocation.  A step of one call
\* leaves the state of every other call, generate or action, as it was; a
\* call starts with no remembered error and no counted attempt whatever
\* earlier or sibling calls remember; its first invocation runs the attempt
\* body; it gives up at its own bound; and the nested cache retries of a
\* generate call go on until their own bound whatever any invocation
\* remembers.
C33_RetryStateIsLocal ==
    [][/\ \A c \in Slots :
             LET r == calls[c]
                 q == calls'[c]
             IN  /\ q # r =>
                       /\ \A d \in Slots \ {c} : calls'[d] = calls[d]
                       /\ actionState' = actionState
                 /\ (r.pc = "idle" /\ q.pc # "idle") =>
                       /\ RetryState(q) = RetryState(IdleCall)
                       /\ q.pc = "backoff"
                 /\ (r.pc = "backoff" /\ q # r) =>
                       /\ r.nonRetryErr = NoError =>
                             /\ q.pc = "cacheRead"
                             /\ q.formatterCalls = r.formatterCalls + 1
                             /\ q.inner = 0
                       /\ r.invocations = 0 => q.formatterCalls = 1
                 /\ (r.pc \in {"cacheRead", "cacheWrite"}
                     /\ q.pc = r.pc /\ q # r) =>
                       /\ q.inner = r.inner + 1
                       /\ q.inner < GenerateAttempts
                 /\ (r.pc \in {"cacheRead", "cacheWrite"}
                     /\ q.kinds # r.kinds
                     /\ q.kinds[Len(q.kinds)] \in {"cacheRead", "cacheWrite"}) =>
                       r.inner + 1 = GenerateAttempts
                 /\ (r.pc \notin {"idle", "thrown"} /\ q.pc = "thrown") =>
                       q.attemptNumber = GenerateAttempts
    /\ LET a == actionState
           b == actionState'
       IN  /\ b # a => calls' = calls
           /\ (a.pc = "idle" /\ b.pc # "idle") =>
                 /\ b.nonRetryErr = NoError
                 /\ b.attemptNumber = 0
                 /\ b.pc = "backoff"
           /\ (a.pc = "backoff" /\ b # a /\ a.nonRetryErr = NoError) =>
                 b.pc = "cacheRead" /\ b.inner = 0]_vars

\* after a call at temperature 0 failed for good on a schema error, a new
\* call with the same arguments is in its attempt body and its cache read
\* has been retried, while a sibling remembers a permanent failure
C33_Witness ==
    /\ caught.message = <<NoRetryMarker, "Invalid schema returned from LLM">>
    /\ actionState.nonRetryErr = <<NoRetryMarker, "operation failed">>
    /\ \E c \in Slots, d \in Slots :
          /\ c # d
          /\ calls[d].nonRetryErr # NoError
          /\ calls[c].temperature = "zero"
          /\ calls[c].pc = "cacheRead"
          /\ calls[c].formatterCalls = 1
          /\ calls[c].inner = 1

\* the resources a generate call has used are within its attempt bound
Bounded(r) ==
    /\ r.invocations <= GenerateAttempts
    /\ r.formatterCalls <= GenerateAttempts
    /\ r.providerCalls <= r.formatterCalls
    /\ Len(r.innerNames) <= GenerateAttempts
    /\ r.cacheWrites <= 1
    /\ r.cacheWrites = 1 => r.pc = "returned"

\* C37: provided the provider and cache calls settle, every generate call
\* comes to an end, with a result or with an ElelemError; it runs at most N
\* attempt bodies for an attempt bound N, so invokes the provider at most N
\* times; each attempt body has one cache-read loop of at most N reads; and
\* at most one cache write returns, which ends the call.
C37_Terminates ==
    \A c \in Slots :
        /\ [](calls[c].pc # "idle" => Bounded(calls[c]))
        /\ [](calls[c].pc = "returned" => calls[c].result # Null)
        /\ []((calls[c].pc = "thrown" /\ openaiConfigured) =>
                 calls[c].errorClass = "ElelemError")
        /\ (calls[c].pc \notin {"idle", "returned", "thrown"})
              ~> CallOver(calls[c])

C37_Witness ==
    \E c \in Slots :
        /\ GenerateAttempts >= 2
        /\ calls[c].pc = "returned"
        /\ calls[c].formatterCalls = GenerateAttempts
        /\ calls[c].providerCalls = GenerateAttempts
        /\ Len(calls[c].innerNames) = GenerateAttempts
        /\ calls[c].cacheWrites = 1

=============================================================================
